---- MODULE Spec2Model ----
(***************************************************************************)
(* A model of the WebSocket <-> Redis pub/sub gateway.                     *)
(*                                                                         *)
(* Part I  (Spec):   the fan-out manager of src/src/pubsub_manager.c, its  *)
(*                   string pool, the Redis connections it drives and the  *)
(*                   client connections whose teardown cascades into it.   *)
(* Part II (SpecWS): the frame reader of src/websocket.c behind the read   *)
(*                   path of src/src/client_connection.c.  SpecFrames has  *)
(*                   a client that writes single frames, well formed or    *)
(*                   not; SpecHS starts before the opening handshake,      *)
(*                   with a client that writes one HTTP request; SpecConn  *)
(*                   is the life of a connection with its PING timer,      *)
(*                   SpecShutdown a caller of client_connection_shutdown;  *)
(*                   SpecMsg hands the reader's messages to the message    *)
(*                   callback of src/src/server.c and so to the manager;   *)
(*                   SpecLarge has frames as large as on_read's buffer,    *)
(*                   SpecEdges frames that take the reader along every     *)
(*                   edge between its states.                              *)
(* Part III:         the library functions, each called on its own: the    *)
(*                   string pool with its pointers (SpecPool), the header  *)
(*                   list of a request (SpecHeaders), lexer_consume_uint32 *)
(*                   (SpecU32), parse_http_line_request (SpecLine), Base64 *)
(*                   (SpecB64).  Their inputs are bytes; a uint32_t is     *)
(*                   kept as two 16-bit halves.                            *)
(* The end of main (the connections are destroyed, then the manager) is    *)
(* a function of the manager's state, evaluated in every state of Part I:  *)
(* the process can be told to leave its event loop between any two         *)
(* callbacks.                                                              *)
(*                                                                         *)
(* An HTTP request is a sequence of lines already split at CRLF; header    *)
(* names and values are strings compared as the code compares them.  SHA-1 *)
(* and Base64 are a table over the keys the clients use.  Data written to  *)
(* the bufferevent reaches the client when libevent next runs the write    *)
(* event; whether bufferevent_flush sends anything from inside a callback  *)
(* that then frees the bufferevent is left open (both outcomes are         *)
(* explored).  A freed struct keeps its last content.                      *)
(*                                                                         *)
(* The two hashtables are modelled as maps from key to chain: a lookup in  *)
(* the C code walks one hash bucket comparing keys by pointer, so which    *)
(* bucket a key hashes to is not observable.  A chain is a sequence whose  *)
(* head is the most recently inserted node.  Allocation is assumed to      *)
(* succeed: the malloc-failure branches are not modelled, and neither is a *)
(* redisAsyncCommand that fails for want of memory.  hiredis is taken to   *)
(* hand every reply to the callback with the privdata of the command it    *)
(* answers, and libevent to call the read callback once the input buffer   *)
(* holds the low watermark, reading no further than the high watermark.    *)
(***************************************************************************)
EXTENDS Integers, Sequences, FiniteSets, TLC

\* ------------------------------------------------------------------ bounds
MaxInFlight == 2     \* commands + replies in flight on the subscription connection
MaxPub == 1          \* PUBLISH commands in flight on the publish connection
MaxSteps == 12       \* handler runs of a behaviour with history (SpecHist)
MaxMsgs == 2         \* messages a client writes (SpecWS)
MaxFrames == 3       \* frames a client writes (SpecFrames)
MaxPings == 2        \* PING frames the timer sends (SpecHS, SpecConn)
MaxShutdowns == 2    \* socket shutdowns a caller of the API performs (SpecShutdown)
MaxGets == 3         \* string_pool_get calls one pool node answers (SpecPool)
MaxAdds == 3         \* headers added to one request (SpecHeaders)
MaxB64Len == 4       \* bytes of an input of base64_encode (SpecB64)

\* ------------------------------------------------------- inputs of the model
Channels == {"a", "/"}              \* channel names (one byte each)
Sockets == {1, 2}                   \* struct websocket * values
Payloads == {<<"h", "\"">>}         \* message payloads, as byte strings
NoSocket == 0                       \* a NULL privdata
NoChannel == ""
MsgLens == {0, 1, 5, 126}           \* lengths of the messages a client writes
ChunkSizes == {1, 8192}             \* bytes one read(2) on the socket may bring

\* enum status (src/status.h)
STATUS_BAD == "STATUS_BAD"
STATUS_OK == "STATUS_OK"
STATUS_EINVAL == "STATUS_EINVAL"
STATUS_DISCONNECTED == "STATUS_DISCONNECTED"

\* ----------------------------------------------------------- chain helpers
RECURSIVE Count(_, _)
Count(chain, x) ==
  IF chain = <<>> THEN 0
  ELSE (IF Head(chain) = x THEN 1 ELSE 0) + Count(Tail(chain), x)

InChain(chain, x) == \E i \in 1..Len(chain) : chain[i] = x

\* The unlink loop of the value chains: the first node whose value is x is
\* unlinked and the loop breaks; a chain without x is left as it is.
RECURSIVE UnlinkFirst(_, _)
UnlinkFirst(chain, x) ==
  IF chain = <<>> THEN <<>>
  ELSE IF Head(chain) = x THEN Tail(chain)
  ELSE <<Head(chain)>> \o UnlinkFirst(Tail(chain), x)

\* value_chain->next = key_chain->chain; key_chain->chain = value_chain;
PushFront(chain, x) == <<x>> \o chain

\* A table without the key chain of k.
DropKey(table, k) == [x \in (DOMAIN table) \ {k} |-> table[x]]

\* A table whose key chain of k is chain (created when absent).
PutKey(table, k, chain) ==
  [x \in (DOMAIN table) \cup {k} |-> IF x = k THEN chain ELSE table[x]]

ChainOf(table, k) == IF k \in DOMAIN table THEN table[k] ELSE <<>>

\* refcount 0 stands for "no node": the node is allocated on the first get.
string_pool_get(pool, str) == [pool EXCEPT ![str] = @ + 1]

\* A mutant of string_pool_release: the reference is never given back.
string_pool_release_leak(pool, str) == pool

\* --refcount; at 0 the node is unlinked and freed.  Releasing a string that
\* is not in the pool finds no node and returns STATUS_BAD, changing nothing.
string_pool_release(pool, str) ==
  IF pool[str] = 0 THEN pool ELSE [pool EXCEPT ![str] = @ - 1]

\* ------------------------------------------------------- JSON envelope text
\* json_write_escape_string: an opening quote, every byte of the C string
\* (the eight escaped bytes as backslash + letter, any other byte as it
\* is), a closing quote.  "BS" "FF" "LF" "CR" "HT" stand for the control bytes.
EscapeByte(c) ==
  CASE c = "\"" -> <<"\\", "\"">>
    [] c = "\\" -> <<"\\", "\\">>
    [] c = "/"  -> <<"\\", "/">>
    [] c = "BS" -> <<"\\", "b">>
    [] c = "FF" -> <<"\\", "f">>
    [] c = "LF" -> <<"\\", "n">>
    [] c = "CR" -> <<"\\", "r">>
    [] c = "HT" -> <<"\\", "t">>
    [] OTHER    -> <<c>>

RECURSIVE EscapeBytes(_)
EscapeBytes(str) ==
  IF str = <<>> THEN <<>> ELSE EscapeByte(Head(str)) \o EscapeBytes(Tail(str))

json_write_escape_string(str) == <<"\"">> \o EscapeBytes(str) \o <<"\"">>

\* The bytes of a channel name (channel names of the model are one byte).
ChannelBytes(channel) == <<channel>>

\* {"key":<channel>,"data":<message>} as on_subscribed_reply_message prints it.
Envelope(channel, message) ==
  <<"{", "\"", "k", "e", "y", "\"", ":">>
    \o json_write_escape_string(ChannelBytes(channel))
    \o <<",", "\"", "d", "a", "t", "a", "\"", ":">>
    \o json_write_escape_string(message)
    \o <<"}">>

\* ------------------------------------------------ the manager, as functions
\* The part of struct pubsub_manager a call reads and writes, plus what the
\* call hands to hiredis (cmds), what it returns (status) and whether it
\* ended in the failed assertion of remove_websocket_from_channel_chain.
Cmd(name, channel, ws, data) ==
  [cmd |-> name, channel |-> channel, ws |-> ws, data |-> data]

remove_websocket_from_channel_chain(m, canonical_channel, ws) ==
  IF canonical_channel \notin DOMAIN m.cb
  THEN \* assert(key_chain != NULL) fails: the process aborts.
       [m EXCEPT !.crashed = TRUE]
  ELSE LET chain == UnlinkFirst(m.cb[canonical_channel], ws) IN
       IF chain = <<>>
       THEN [m EXCEPT
               !.cmds = Append(@, Cmd("UNSUBSCRIBE", canonical_channel, NoSocket,
                                      <<>>)),
               !.status = STATUS_OK,
               !.pool = string_pool_release(@, canonical_channel),
               !.cb = DropKey(@, canonical_channel)]
       ELSE [m EXCEPT !.cb = PutKey(@, canonical_channel, chain),
                      !.status = STATUS_OK]

\* A mutant of on_subscribed_reply_subscribe: only the channel table is updated.
on_subscribed_reply_subscribe_half(m, ws, channel) ==
  LET pool1 == string_pool_get(m.pool, channel)
      cb1 == PutKey(m.cb, channel, PushFront(ChainOf(m.cb, channel), ws))
  IN [m EXCEPT !.pool = pool1, !.cb = cb1]

\* A mutant of on_subscribed_reply_subscribe: the websocket goes to the tail
\* of the channel's chain.
on_subscribed_reply_subscribe_tail(m, ws, channel) ==
  LET pool1 == string_pool_get(m.pool, channel)
      isnew == channel \notin DOMAIN m.cb
      pool2 == IF isnew THEN string_pool_get(pool1, channel) ELSE pool1
      cb1 == PutKey(m.cb, channel, Append(ChainOf(m.cb, channel), ws))
      wb1 == PutKey(m.wb, ws, PushFront(ChainOf(m.wb, ws), channel))
  IN [m EXCEPT !.pool = pool2, !.cb = cb1, !.wb = wb1]

on_subscribed_reply_subscribe(m, ws, channel) ==
  LET pool1 == string_pool_get(m.pool, channel)
      isnew == channel \notin DOMAIN m.cb
      \* a new key chain keeps the first reference; a second one is taken
      pool2 == IF isnew THEN string_pool_get(pool1, channel) ELSE pool1
      cb1 == PutKey(m.cb, channel, PushFront(ChainOf(m.cb, channel), ws))
      wb1 == PutKey(m.wb, ws, PushFront(ChainOf(m.wb, ws), channel))
  IN [m EXCEPT !.pool = pool2, !.cb = cb1, !.wb = wb1]

on_subscribed_reply_message(m, channel, message) ==
  LET pool1 == string_pool_release(string_pool_get(m.pool, channel), channel) IN
  IF channel \notin DOMAIN m.cb
  THEN [m EXCEPT !.pool = pool1]
  ELSE [m EXCEPT !.pool = pool1,
                 !.frames = [i \in 1..Len(m.cb[channel]) |->
                               [ws |-> m.cb[channel][i],
                                payload |-> Envelope(channel, message)]]]

\* A mutant of pubsub_manager_publish_n: the connection flag is not looked at.
pubsub_manager_publish_n_unguarded(m, connected, channel, message) ==
  [m EXCEPT !.cmds = <<Cmd("PUBLISH", channel, NoSocket, message)>>,
            !.status = STATUS_OK]

pubsub_manager_publish_n(m, connected, channel, message) ==
  IF ~connected
  THEN [m EXCEPT !.status = STATUS_DISCONNECTED]
  ELSE [m EXCEPT !.cmds = <<Cmd("PUBLISH", channel, NoSocket, message)>>,
                 !.status = STATUS_OK]

\* A mutant of pubsub_manager_subscribe: the pair is inserted at call time.
pubsub_manager_subscribe_eager(m, connected, channel, ws) ==
  IF ~connected
  THEN [m EXCEPT !.status = STATUS_DISCONNECTED]
  ELSE [on_subscribed_reply_subscribe(m, ws, channel) EXCEPT
          !.cmds = <<Cmd("SUBSCRIBE", channel, ws, <<>>)>>,
          !.status = STATUS_OK]

pubsub_manager_subscribe(m, connected, channel, ws) ==
  IF ~connected
  THEN [m EXCEPT !.status = STATUS_DISCONNECTED]
  ELSE IF ws \in DOMAIN m.wb
  THEN LET pool1 == string_pool_get(m.pool, channel) IN
       IF InChain(m.wb[ws], channel)
       THEN \* "Not re-subscribing"
            [m EXCEPT !.pool = string_pool_release(pool1, channel),
                      !.status = STATUS_OK]
       ELSE [m EXCEPT !.pool = string_pool_release(pool1, channel),
                      !.cmds = <<Cmd("SUBSCRIBE", channel, ws, <<>>)>>,
                      !.status = STATUS_OK]
  ELSE [m EXCEPT !.cmds = <<Cmd("SUBSCRIBE", channel, ws, <<>>)>>,
                 !.status = STATUS_OK]

\* A mutant of pubsub_manager_unsubscribe: the connection flag is not looked at.
pubsub_manager_unsubscribe_unguarded(m, connected, channel, ws) ==
  IF ws \notin DOMAIN m.wb THEN [m EXCEPT !.status = STATUS_OK]
  ELSE LET chain == UnlinkFirst(m.wb[ws], channel)
           m1 == [m EXCEPT !.wb = IF chain = <<>> THEN DropKey(@, ws)
                                  ELSE PutKey(@, ws, chain)]
       IN remove_websocket_from_channel_chain(m1, channel, ws)

pubsub_manager_unsubscribe(m, connected, channel, ws) ==
  IF ~connected
  THEN [m EXCEPT !.status = STATUS_DISCONNECTED]
  ELSE
    LET pool1 == string_pool_get(m.pool, channel) IN
    IF ws \notin DOMAIN m.wb
    THEN [m EXCEPT !.pool = string_pool_release(pool1, channel),
                   !.status = STATUS_OK]
    ELSE
      LET found == InChain(m.wb[ws], channel)
          chain == UnlinkFirst(m.wb[ws], channel)
          \* the unlinked node's reference is released
          pool2 == IF found THEN string_pool_release(pool1, channel) ELSE pool1
          m1 == [m EXCEPT !.pool = pool2,
                          !.wb = IF chain = <<>> THEN DropKey(@, ws)
                                 ELSE PutKey(@, ws, chain)]
          m2 == remove_websocket_from_channel_chain(m1, channel, ws)
      IN IF m2.crashed
         THEN [m2 EXCEPT !.held = channel]  \* aborted holding canonical_channel
         ELSE [m2 EXCEPT !.pool = string_pool_release(@, channel)]

\* The loop of pubsub_manager_unsubscribe_all over the socket's chain.
RECURSIVE UnsubscribeAllLoop(_, _, _, _)
UnsubscribeAllLoop(m, chain, ws, status) ==
  IF chain = <<>> THEN [m EXCEPT !.status = status]
  ELSE LET m1 == remove_websocket_from_channel_chain(m, Head(chain), ws) IN
       IF m1.crashed THEN m1
       ELSE UnsubscribeAllLoop(
              [m1 EXCEPT !.pool = string_pool_release(@, Head(chain))],
              Tail(chain), ws,
              IF m1.status # STATUS_OK THEN m1.status ELSE status)

pubsub_manager_unsubscribe_all(m, connected, ws) ==
  IF ~connected
  THEN [m EXCEPT !.status = STATUS_DISCONNECTED]
  ELSE IF ws \notin DOMAIN m.wb
  THEN [m EXCEPT !.status = STATUS_OK]
  ELSE LET m1 == UnsubscribeAllLoop(m, m.wb[ws], ws, STATUS_OK) IN
       IF m1.crashed THEN m1 ELSE [m1 EXCEPT !.wb = DropKey(@, ws)]

\* ======================================================================
\* Part I: the state of the gateway process and of its Redis connections
\* ======================================================================
VARIABLES
  string_pool,        \* refcount of each string's node (0: no node)
  channel_buckets,    \* { channel : [ websocket ] }
  websocket_buckets,  \* { websocket : [ channel ] }
  pub_is_connected,
  sub_is_connected,
  pub_ctx,            \* the hiredis contexts: "connecting", "connected", "closed"
  sub_ctx,
  sub_cmds,           \* SUBSCRIBE/UNSUBSCRIBE commands on their way to Redis
  sub_replies,        \* replies on their way back, with the command's privdata
  pub_cmds,           \* PUBLISH commands on their way to Redis
  redis_subs,         \* the channels Redis has the subscription connection on
  clients,            \* the registry: sockets of the live client connections
  crashed,            \* the process aborted (failed assertion, invalid access)
  held                \* the canonical string an aborted call still held

\* History variables (they record what happened; no handler reads them).
VARIABLES
  nsub,               \* SUBSCRIBE commands issued per (socket, channel) since
                      \* the pair's last unsubscribe or the socket's teardown
  last_op,            \* the handler that ran last and the status it returned
  steps               \* handlers run so far

psvars == <<string_pool, channel_buckets, websocket_buckets, pub_is_connected,
            sub_is_connected, pub_ctx, sub_ctx, sub_cmds, sub_replies, pub_cmds,
            redis_subs, clients, crashed, held>>

histvars == <<nsub, last_op, steps>>

EmptyTable == [x \in {} |-> <<>>]

Op(name, status) == [op |-> name, status |-> status]

\* memset(mgr, 0, ...): empty tables, both flags false; an empty pool; the
\* two contexts still connecting; no client accepted yet.
InitPS ==
  /\ string_pool = [c \in Channels |-> 0]
  /\ channel_buckets = EmptyTable
  /\ websocket_buckets = EmptyTable
  /\ pub_is_connected = FALSE
  /\ sub_is_connected = FALSE
  /\ pub_ctx = "connecting"
  /\ sub_ctx = "connecting"
  /\ sub_cmds = <<>>
  /\ sub_replies = <<>>
  /\ pub_cmds = <<>>
  /\ redis_subs = {}
  /\ clients = {}
  /\ crashed = FALSE
  /\ held = NoChannel

InitHist ==
  /\ nsub = [s \in Sockets |-> [c \in Channels |-> 0]]
  /\ last_op = Op("create", STATUS_OK)
  /\ steps = 0

\* The manager as a call finds it.
Mgr ==
  [pool |-> string_pool, cb |-> channel_buckets, wb |-> websocket_buckets,
   cmds |-> <<>>, frames |-> <<>>, status |-> STATUS_OK, crashed |-> FALSE,
   held |-> NoChannel]

Sent(cmds, names) == SelectSeq(cmds, LAMBDA c : c.cmd \in names)

\* The manager as a call leaves it; the commands go to hiredis.
Commit(m) ==
  /\ string_pool' = m.pool
  /\ channel_buckets' = m.cb
  /\ websocket_buckets' = m.wb
  /\ crashed' = m.crashed
  /\ held' = m.held
  /\ sub_cmds' = sub_cmds \o Sent(m.cmds, {"SUBSCRIBE", "UNSUBSCRIBE"})
  /\ pub_cmds' = pub_cmds \o Sent(m.cmds, {"PUBLISH"})
  /\ Len(sub_cmds') + Len(sub_replies) <= MaxInFlight
  /\ Len(pub_cmds') <= MaxPub

\* setup_connection: a connection (and its websocket) joins the registry.  The
\* allocator may hand out the address of a websocket freed earlier.
client_connection_create(ws) ==
  /\ ~crashed
  /\ ws \notin clients
  /\ clients' = clients \cup {ws}
  /\ UNCHANGED <<string_pool, channel_buckets, websocket_buckets, pub_is_connected,
                 sub_is_connected, pub_ctx, sub_ctx, sub_cmds, sub_replies,
                 pub_cmds, redis_subs, crashed, held>>

\* process_websocket_message, action "sub".
ClientSub(ws, channel) ==
  /\ ~crashed
  /\ ws \in clients
  /\ Commit(pubsub_manager_subscribe(Mgr, sub_is_connected, channel, ws))
  /\ UNCHANGED <<pub_is_connected, sub_is_connected, pub_ctx, sub_ctx,
                 sub_replies, redis_subs, clients>>

\* process_websocket_message, action "unsub".
ClientUnsub(ws, channel) ==
  /\ ~crashed
  /\ ws \in clients
  /\ Commit(pubsub_manager_unsubscribe(Mgr, sub_is_connected, channel, ws))
  /\ UNCHANGED <<pub_is_connected, sub_is_connected, pub_ctx, sub_ctx,
                 sub_replies, redis_subs, clients>>

\* process_websocket_message, action "pub" (from any live client).
ClientPub(channel, message) ==
  /\ ~crashed
  /\ clients # {}
  /\ Commit(pubsub_manager_publish_n(Mgr, pub_is_connected, channel, message))
  /\ UNCHANGED <<pub_is_connected, sub_is_connected, pub_ctx, sub_ctx,
                 sub_replies, redis_subs, clients>>

\* client_connection_destroy: the connection leaves the registry and
\* _client_connection_destroy runs pubsub_manager_unsubscribe_all before the
\* websocket is freed.
client_connection_destroy(ws) ==
  /\ ~crashed
  /\ ws \in clients
  /\ Commit(pubsub_manager_unsubscribe_all(Mgr, sub_is_connected, ws))
  /\ clients' = clients \ {ws}
  /\ UNCHANGED <<pub_is_connected, sub_is_connected, pub_ctx, sub_ctx,
                 sub_replies, redis_subs>>

\* on_connect, called once per context by hiredis.
on_connect(ctx, status_ok) ==
  /\ ~crashed
  /\ IF ctx = "pub"
     THEN /\ pub_ctx = "connecting"
          /\ pub_ctx' = IF status_ok THEN "connected" ELSE "closed"
          /\ pub_is_connected' = (IF status_ok THEN TRUE ELSE pub_is_connected)
          /\ UNCHANGED <<sub_ctx, sub_is_connected>>
     ELSE /\ sub_ctx = "connecting"
          /\ sub_ctx' = IF status_ok THEN "connected" ELSE "closed"
          /\ sub_is_connected' = (IF status_ok THEN TRUE ELSE sub_is_connected)
          /\ UNCHANGED <<pub_ctx, pub_is_connected>>
  /\ UNCHANGED <<string_pool, channel_buckets, websocket_buckets, sub_cmds,
                 sub_replies, pub_cmds, redis_subs, clients, crashed, held>>

\* on_disconnect.  hiredis hands every pending callback a NULL reply (which
\* on_subscribed_reply ignores) and frees the context; Redis forgets the
\* connection's subscriptions.
on_disconnect(ctx) ==
  /\ ~crashed
  /\ IF ctx = "pub"
     THEN /\ pub_ctx = "connected"
          /\ pub_ctx' = "closed"
          /\ pub_is_connected' = FALSE
          /\ pub_cmds' = <<>>
          /\ UNCHANGED <<sub_ctx, sub_is_connected, sub_cmds, sub_replies, redis_subs>>
     ELSE /\ sub_ctx = "connected"
          /\ sub_ctx' = "closed"
          /\ sub_is_connected' = FALSE
          /\ sub_cmds' = <<>>
          /\ sub_replies' = <<>>
          /\ redis_subs' = {}
          /\ UNCHANGED <<pub_ctx, pub_is_connected, pub_cmds>>
  /\ UNCHANGED <<string_pool, channel_buckets, websocket_buckets, clients,
                 crashed, held>>

Reply(type, channel, ws, data) ==
  [type |-> type, channel |-> channel, ws |-> ws, data |-> data]

\* Redis executes the next command of the subscription connection and answers
\* it; hiredis will hand the answer to the callback with the command's privdata.
RedisServe ==
  /\ ~crashed
  /\ sub_cmds # <<>>
  /\ LET c == Head(sub_cmds) IN
       /\ redis_subs' = IF c.cmd = "SUBSCRIBE" THEN redis_subs \cup {c.channel}
                        ELSE redis_subs \ {c.channel}
       /\ sub_replies' = Append(sub_replies,
                                Reply(IF c.cmd = "SUBSCRIBE" THEN "subscribe"
                                      ELSE "unsubscribe", c.channel, c.ws, <<>>))
  /\ sub_cmds' = Tail(sub_cmds)
  /\ UNCHANGED <<string_pool, channel_buckets, websocket_buckets, pub_is_connected,
                 sub_is_connected, pub_ctx, sub_ctx, pub_cmds, clients, crashed,
                 held>>

\* Redis executes the next PUBLISH: a "message" goes to the subscription
\* connection when it is subscribed to the channel.
RedisPublish ==
  /\ ~crashed
  /\ pub_cmds # <<>>
  /\ LET c == Head(pub_cmds) IN
       IF c.channel \in redis_subs
       THEN /\ Len(sub_cmds) + Len(sub_replies) < MaxInFlight
            /\ sub_replies' = Append(sub_replies,
                                     Reply("message", c.channel, NoSocket, c.data))
       ELSE UNCHANGED sub_replies
  /\ pub_cmds' = Tail(pub_cmds)
  /\ UNCHANGED <<string_pool, channel_buckets, websocket_buckets, pub_is_connected,
                 sub_is_connected, pub_ctx, sub_ctx, sub_cmds, redis_subs, clients,
                 crashed, held>>

\* What on_subscribed_reply does with a three-element array reply.
Dispatch(m, r) ==
  CASE r.type = "subscribe" -> on_subscribed_reply_subscribe(m, r.ws, r.channel)
    [] r.type = "message" -> on_subscribed_reply_message(m, r.channel, r.data)
    [] OTHER -> m

\* A frame of the call goes to a websocket that was freed.
Dangling(m) == \E i \in 1..Len(m.frames) : m.frames[i].ws \notin clients

\* on_subscribed_reply for the next reply.  A frame written to a websocket that
\* was freed is an invalid access: the process may abort there or go on.
on_subscribed_reply(abort) ==
  /\ ~crashed
  /\ sub_replies # <<>>
  /\ LET m == Dispatch(Mgr, Head(sub_replies)) IN
       /\ abort => Dangling(m)
       /\ Commit([m EXCEPT !.crashed = abort])
  /\ sub_replies' = Tail(sub_replies)
  /\ UNCHANGED <<pub_is_connected, sub_is_connected, pub_ctx, sub_ctx, redis_subs,
                 clients>>

\* ------------------------------------------------- the same, with history
HistSub(ws, channel) ==
  /\ ClientSub(ws, channel)
  /\ LET m == pubsub_manager_subscribe(Mgr, sub_is_connected, channel, ws) IN
       /\ nsub' = [nsub EXCEPT ![ws][channel] = @ + Len(m.cmds)]
       /\ last_op' = Op("subscribe", m.status)

HistUnsub(ws, channel) ==
  /\ ClientUnsub(ws, channel)
  /\ LET m == pubsub_manager_unsubscribe(Mgr, sub_is_connected, channel, ws) IN
       /\ nsub' = IF m.status = STATUS_DISCONNECTED THEN nsub
                  ELSE [nsub EXCEPT ![ws][channel] = 0]
       /\ last_op' = Op("unsubscribe", m.status)

HistPub(channel, message) ==
  /\ ClientPub(channel, message)
  /\ last_op' = Op("publish", pubsub_manager_publish_n(Mgr, pub_is_connected,
                                                       channel, message).status)
  /\ UNCHANGED nsub

HistDestroy(ws) ==
  /\ client_connection_destroy(ws)
  /\ nsub' = [nsub EXCEPT ![ws] = [c \in Channels |-> 0]]
  /\ last_op' = Op("destroy", pubsub_manager_unsubscribe_all(Mgr, sub_is_connected,
                                                            ws).status)

HistReply(abort) ==
  /\ on_subscribed_reply(abort)
  /\ last_op' = Op(Head(sub_replies).type, STATUS_OK)
  /\ UNCHANGED nsub

HistOther(name) ==
  /\ last_op' = Op(name, STATUS_OK)
  /\ UNCHANGED nsub

\* ======================================================================
\* Part II: the frame reader of one upgraded connection
\* ======================================================================
VARIABLES
  websocket,   \* struct websocket, the read watermark and the output buffer of
               \* its bufferevent, and the calls of in_message_cb made so far
  bev_input,   \* the input buffer of the connection's bufferevent
  wire,        \* what the client has written that the kernel still holds
  sent,        \* the messages the client has written
  ws_aborted,  \* an assertion of the reader failed
  client,      \* struct client_connection: its place in the registry, its
               \* needs_shutdown flag and its HTTP response
  received,    \* what the transport has delivered to the client
  written,     \* the frames the client has written, one by one
  request      \* the HTTP request the client has written

wsvars == <<websocket, bev_input, wire, sent, ws_aborted, client, received,
            written, request>>

\* Opcodes (enum websocket_opcode).
WS_OPCODE_CONTINUATION_FRAME == 0
WS_OPCODE_TEXT_FRAME == 1
WS_OPCODE_BINARY_FRAME == 2
WS_OPCODE_CONNECTION_CLOSE == 8
WS_OPCODE_PING == 9
WS_OPCODE_PONG == 10

MAX_PAYLOAD_LENGTH == 16777216

\* sizeof(buf) in on_read.
ReadBufferSize == 4096

Min(a, b) == IF a < b THEN a ELSE b

\* a ^ b on bytes.
RECURSIVE Xor(_, _)
Xor(a, b) ==
  IF a = 0 THEN b
  ELSE IF b = 0 THEN a
  ELSE (((a % 2) + (b % 2)) % 2) + 2 * Xor(a \div 2, b \div 2)

\* The unmasking loop of consume_needs_payload: every quad is XORed with the
\* key as it was read, so byte i meets key byte (i mod 4).
Unmask(bytes, key) ==
  [i \in 1..Len(bytes) |-> Xor(bytes[i], key[((i - 1) % 4) + 1])]

\* ------------------------------------------------ the client's side (RFC 6455)
MaskingKey == <<55, 250, 33, 61>>

HelloBytes == <<72, 101, 108, 108, 111>>

\* The message of n bytes the client sends: "HelloHello...".
Message(n) == [i \in 1..n |-> HelloBytes[((i - 1) % 5) + 1]]

\* The payload length as the frame header carries it.
EncodeLength(n) ==
  IF n <= 125 THEN <<128 + n>>
  ELSE IF n <= 65535 THEN <<128 + 126, n \div 256, n % 256>>
  ELSE <<128 + 127, 0, 0, 0, 0, (n \div 16777216) % 256, (n \div 65536) % 256,
         (n \div 256) % 256, n % 256>>

\* One masked frame.
EncodeFrame(fin, opcode, payload) ==
  <<(IF fin THEN 128 ELSE 0) + opcode>> \o EncodeLength(Len(payload))
    \o MaskingKey \o Unmask(payload, MaskingKey)

\* A message as one FIN frame (split = -1) or as two fragments, the first
\* carrying the first split bytes.
EncodeMessage(bytes, binary, split) ==
  LET opcode == IF binary THEN WS_OPCODE_BINARY_FRAME ELSE WS_OPCODE_TEXT_FRAME IN
  IF split = -1 THEN EncodeFrame(TRUE, opcode, bytes)
  ELSE EncodeFrame(FALSE, opcode, SubSeq(bytes, 1, split))
         \o EncodeFrame(TRUE, WS_OPCODE_CONTINUATION_FRAME,
                        SubSeq(bytes, split + 1, Len(bytes)))

\* ------------------------------------------- HTTP requests and responses
\* An HTTP request is modelled line by line: the request line, the message
\* headers and the empty line that ends them.  A line the grammar of
\* parse_http_line_request does not accept has kind "garbage".
Line(kind, name, value, major, minor) ==
  [kind |-> kind, name |-> name, value |-> value,
   version_major |-> major, version_minor |-> minor]

RequestLine(method, netloc, major, minor) ==
  Line("request-line", method, netloc, major, minor)

HeaderLine(name, value) == Line("header", name, value, 0, 0)

EmptyLine == Line("CRLF", "", "", 0, 0)

GarbageLine == Line("garbage", "", "", 0, 0)

\* The methods parse_http_method knows.
HTTP_METHODS ==
  {"GET", "PUT", "HEAD", "POST", "TRACE", "DELETE", "CONNECT", "OPTIONS"}

\* tolower(), on the header names and values that occur.
ToLower(str) ==
  CASE str = "Upgrade" -> "upgrade"
    [] str = "WebSocket" -> "websocket"
    [] str = "Connection" -> "connection"
    [] str = "Close" -> "close"
    [] str = "Origin" -> "origin"
    [] str = "Host" -> "host"
    [] str = "HOST" -> "host"
    [] str = "UPGRADE" -> "upgrade"
    [] str = "Cookie" -> "cookie"
    [] str = "Sec-WebSocket-Version" -> "sec-websocket-version"
    [] str = "Sec-WebSocket-Key" -> "sec-websocket-key"
    [] str = "Sec-WebSocket-Accept" -> "sec-websocket-accept"
    [] OTHER -> str

\* strcasecmp(a, b) == 0
EqualNoCase(a, b) == ToLower(a) = ToLower(b)

\* A mutant of http_header_add: the names are compared with strcmp.
http_header_add_exact(header, name, value) ==
  LET hits == {i \in 1..Len(header) : header[i].name = name} IN
  IF hits = {}
  THEN <<[name |-> name, value |-> value]>> \o header
  ELSE LET h == CHOOSE i \in hits : \A j \in hits : i <= j
       IN [header EXCEPT ![h].value = value]

\* The header list is a chain whose head is the header added last; a header
\* whose name is already there (whatever its case) gets the new value.
http_header_add(header, name, value) ==
  LET hits == {i \in 1..Len(header) : EqualNoCase(header[i].name, name)} IN
  IF hits = {}
  THEN <<[name |-> name, value |-> value]>> \o header
  ELSE LET h == CHOOSE i \in hits : \A j \in hits : i <= j
       IN [header EXCEPT ![h].value = value]

\* The first header of that name, whatever its case; found is FALSE for NULL.
http_request_find_header(req, name) ==
  LET hits == {i \in 1..Len(req.header) : EqualNoCase(req.header[i].name, name)} IN
  IF hits = {}
  THEN [found |-> FALSE, name |-> "", value |-> ""]
  ELSE LET h == CHOOSE i \in hits : \A j \in hits : i <= j
       IN [found |-> TRUE, name |-> req.header[h].name,
           value |-> req.header[h].value]

\* http_request_init: a zeroed request.
http_request_init ==
  [version_major |-> 0, version_minor |-> 0, host |-> "", header |-> <<>>]

\* The message headers of parse_http_request, from line i on: every header
\* line is added to the request; the loop ends at the empty line and fails
\* when the input ends first or a line is no header.
RECURSIVE ParseHeaders(_, _, _)
ParseHeaders(req, lines, i) ==
  IF i > Len(lines) THEN [status |-> STATUS_BAD, req |-> req]
  ELSE IF lines[i].kind = "CRLF" THEN [status |-> STATUS_OK, req |-> req]
  ELSE IF lines[i].kind # "header" THEN [status |-> STATUS_BAD, req |-> req]
  ELSE ParseHeaders([req EXCEPT !.header =
                       http_header_add(@, lines[i].name, lines[i].value)],
                    lines, i + 1)

\* The end of http_request_parse: the URI or the Host header must give the
\* host, and both the same one.
RequestHost(req, host) ==
  IF host.found /\ req.host # "" /\ host.value # req.host
  THEN [status |-> STATUS_BAD, req |-> req]
  ELSE IF host.found /\ req.host = ""
  THEN [status |-> STATUS_OK, req |-> [req EXCEPT !.host = host.value]]
  ELSE IF req.host = "" THEN [status |-> STATUS_BAD, req |-> req]
  ELSE [status |-> STATUS_OK, req |-> req]

\* http_request_parse after parse_http_request has returned p.
ParsedRequest(p) ==
  IF p.status # STATUS_OK THEN p
  ELSE RequestHost(p.req, http_request_find_header(p.req, "Host"))

\* http_request_parse: the request line, the headers, and then the host.
http_request_parse(req, lines) ==
  IF \/ lines = <<>>
     \/ lines[1].kind # "request-line"
     \/ lines[1].name \notin HTTP_METHODS
  THEN [status |-> STATUS_BAD, req |-> req]
  ELSE ParsedRequest(
         ParseHeaders([req EXCEPT !.version_major = lines[1].version_major,
                                  !.version_minor = lines[1].version_minor,
                                  !.host = lines[1].value],
                      lines, 2))

\* http_response_init: a zeroed response.
http_response_init ==
  [version_major |-> 0, version_minor |-> 0, status_code |-> 0, header |-> <<>>]

http_response_add_header(response, name, value) ==
  [response EXCEPT !.header = http_header_add(@, name, value)]

http_response_set_status_code(response, status_code) ==
  [response EXCEPT !.status_code = status_code]

http_response_set_version(response, major, minor) ==
  [response EXCEPT !.version_major = major, !.version_minor = minor]

\* The reason phrases of the status codes the handshake uses.
get_status_string(status_code) ==
  CASE status_code = 101 -> "Switching Protocols"
    [] status_code = 400 -> "Bad Request"
    [] status_code = 403 -> "Forbidden"
    [] status_code = 505 -> "HTTP Version Not Supported"
    [] OTHER -> ""

\* One write into the output buffer of the bufferevent: an HTTP response
\* (status line and headers) or the bytes of one frame.
HttpWrite(response) ==
  [kind |-> "http", bytes |-> <<>>,
   version_major |-> response.version_major,
   version_minor |-> response.version_minor,
   status_code |-> response.status_code,
   reason |-> get_status_string(response.status_code),
   header |-> response.header]

FrameWrite(bytes) ==
  [kind |-> "frame", bytes |-> bytes, version_major |-> 0, version_minor |-> 0,
   status_code |-> 0, reason |-> "", header |-> <<>>]

\* http_response_write_evbuffer into ws->out followed by
\* websocket_flush_output, which hands ws->out to the bufferevent.
http_response_write_evbuffer(w, response) ==
  [w EXCEPT !.output = Append(@, HttpWrite(response))]

\* ------------------------------------------------------ sending frames
\* The unmasked frame send_frame writes, handed to the bufferevent by
\* websocket_flush_output.
send_frame(w, opcode, payload) ==
  LET nbytes == Len(payload)
      prefix == <<128 + opcode,
                  IF nbytes > 65535 THEN 127
                  ELSE IF nbytes > 125 THEN 126 ELSE nbytes>>
      length == IF nbytes > 65535
                THEN <<0, 0, 0, 0, (nbytes \div 16777216) % 256,
                       (nbytes \div 65536) % 256, (nbytes \div 256) % 256,
                       nbytes % 256>>
                ELSE IF nbytes > 125 THEN <<nbytes \div 256, nbytes % 256>>
                ELSE <<>>
  IN [w EXCEPT !.output = Append(@, FrameWrite(prefix \o length \o payload))]

send_ping(w, payload) == send_frame(w, WS_OPCODE_PING, payload)

send_pong(w, payload) == send_frame(w, WS_OPCODE_PONG, payload)

\* printf("%u"): the decimal digits of n, as bytes.
RECURSIVE Decimal(_)
Decimal(n) ==
  IF n < 10 THEN <<48 + n>> ELSE Decimal(n \div 10) \o <<48 + (n % 10)>>

\* --------------------------------------------------- the reader, as functions
\* A mutant of NeedsInitial: going back to waiting for a header forgets
\* that a message is in progress.
NeedsInitial_forgetful(w) ==
  [w EXCEPT !.in_state = "WS_NEEDS_INITIAL", !.watermark = 2,
            !.in_message_is_continuing = FALSE]

\* Back to waiting for a frame header.
NeedsInitial(w) == [w EXCEPT !.in_state = "WS_NEEDS_INITIAL", !.watermark = 2]

\* ws->in_message_cb(ws): the callback sees the message buffer and the flag.
MessageCallback(w) ==
  [w EXCEPT !.cb_calls = Append(@, [binary |-> w.in_message_is_binary,
                                    bytes |-> w.in_message_buffer])]

consume_needs_initial(w, bytes) ==
  LET in_reserved == (bytes[1] \div 16) % 8
      in_is_masked == (bytes[2] \div 128) = 1
      w1 == [w EXCEPT !.in_frame_is_final = (bytes[1] \div 128) = 1,
                      !.in_frame_opcode = bytes[1] % 16,
                      !.in_frame_nbytes = bytes[2] % 128]
  IN IF in_reserved # 0 \/ ~in_is_masked
     THEN [w1 EXCEPT !.in_state = "WS_CLOSED"]
     ELSE LET w2 == IF w1.in_frame_nbytes = 126
                    THEN [w1 EXCEPT !.in_state = "WS_NEEDS_LENGTH_16",
                                    !.watermark = 2]
                    ELSE IF w1.in_frame_nbytes = 127
                    THEN [w1 EXCEPT !.in_state = "WS_NEEDS_LENGTH_64",
                                    !.watermark = 8]
                    ELSE [w1 EXCEPT !.in_state = "WS_NEEDS_MASKING_KEY",
                                    !.watermark = 4]
          IN IF w2.in_frame_opcode = WS_OPCODE_CONNECTION_CLOSE
             THEN [w2 EXCEPT !.in_state = "WS_CLOSED"]
             ELSE w2

\* A mutant of consume_needs_length_16: the masking key is skipped.
consume_needs_length_16_skipkey(w, bytes) ==
  [w EXCEPT !.in_frame_nbytes = bytes[1] * 256 + bytes[2],
            !.in_state = "WS_NEEDS_PAYLOAD",
            !.watermark = bytes[1] * 256 + bytes[2]]

consume_needs_length_16(w, bytes) ==
  LET w1 == [w EXCEPT !.in_frame_nbytes = bytes[1] * 256 + bytes[2]] IN
  IF w1.in_frame_nbytes > MAX_PAYLOAD_LENGTH
  THEN [w1 EXCEPT !.in_state = "WS_CLOSED"]
  ELSE [w1 EXCEPT !.in_state = "WS_NEEDS_MASKING_KEY", !.watermark = 4]

RECURSIVE BigEndian(_)
BigEndian(bytes) ==
  IF bytes = <<>> THEN 0
  ELSE bytes[Len(bytes)] + 256 * BigEndian(SubSeq(bytes, 1, Len(bytes) - 1))

\* consume_needs_length_64 without the limit on the payload length.
consume_needs_length_64_nolimit(w, bytes) ==
  [w EXCEPT !.in_frame_nbytes = BigEndian(SubSeq(bytes, 1, 8)),
            !.in_state = "WS_NEEDS_MASKING_KEY", !.watermark = 4]

consume_needs_length_64(w, bytes) ==
  LET w1 == [w EXCEPT !.in_frame_nbytes = BigEndian(SubSeq(bytes, 1, 8))] IN
  IF w1.in_frame_nbytes > MAX_PAYLOAD_LENGTH
  THEN [w1 EXCEPT !.in_state = "WS_CLOSED"]
  ELSE [w1 EXCEPT !.in_state = "WS_NEEDS_MASKING_KEY", !.watermark = 4]

consume_needs_masking_key(w, bytes) ==
  [w EXCEPT !.in_frame_masking_key = SubSeq(bytes, 1, 4),
            !.in_state = "WS_NEEDS_PAYLOAD",
            !.watermark = w.in_frame_nbytes]

consume_needs_payload(w, bytes) ==
  LET frame == Unmask(bytes, w.in_frame_masking_key)
      w1 == [w EXCEPT !.in_frame_buffer = frame]
      \* evbuffer_remove_buffer(frame, message, all) and
      \* evbuffer_add_buffer(message, frame): the frame moves to the message
      moved == [w1 EXCEPT !.in_message_buffer = @ \o frame,
                          !.in_frame_buffer = <<>>]
      drained(x) == [x EXCEPT !.in_message_buffer = <<>>]
  IN CASE w.in_frame_opcode = WS_OPCODE_CONTINUATION_FRAME ->
            IF ~w.in_message_is_continuing
            THEN [w1 EXCEPT !.in_state = "WS_CLOSED"]
            ELSE IF w.in_frame_is_final
            THEN NeedsInitial(drained(MessageCallback(
                   [moved EXCEPT !.in_message_is_continuing = FALSE])))
            ELSE NeedsInitial(moved)
       [] w.in_frame_opcode = WS_OPCODE_TEXT_FRAME ->
            IF w.in_frame_is_final
            THEN NeedsInitial(drained(MessageCallback(
                   [moved EXCEPT !.in_message_is_binary = FALSE,
                                 !.in_message_is_continuing = FALSE])))
            ELSE NeedsInitial([moved EXCEPT !.in_message_is_binary = FALSE,
                                            !.in_message_is_continuing = TRUE])
       [] w.in_frame_opcode = WS_OPCODE_BINARY_FRAME ->
            IF w.in_frame_is_final
            THEN \* evbuffer_add_buffer(ws->in_frame_buffer, ws->in_message_buffer):
                 \* the message buffer is moved to the end of the frame buffer
                 NeedsInitial(drained(MessageCallback(
                   [w1 EXCEPT !.in_message_is_binary = TRUE,
                              !.in_message_is_continuing = FALSE,
                              !.in_frame_buffer = frame \o w.in_message_buffer,
                              !.in_message_buffer = <<>>])))
            ELSE NeedsInitial([moved EXCEPT !.in_message_is_binary = TRUE,
                                            !.in_message_is_continuing = TRUE])
       [] w.in_frame_opcode = WS_OPCODE_PING ->
            \* send_frame moves the frame buffer into ws->out
            NeedsInitial(send_pong([w1 EXCEPT !.in_frame_buffer = <<>>], frame))
       [] w.in_frame_opcode = WS_OPCODE_PONG ->
            NeedsInitial(w1)
       [] OTHER -> [w1 EXCEPT !.in_state = "WS_CLOSED"]

websocket_consume(w, bytes) ==
  CASE w.in_state = "WS_NEEDS_INITIAL" -> consume_needs_initial(w, bytes)
    [] w.in_state = "WS_NEEDS_LENGTH_16" -> consume_needs_length_16(w, bytes)
    [] w.in_state = "WS_NEEDS_LENGTH_64" -> consume_needs_length_64(w, bytes)
    [] w.in_state = "WS_NEEDS_MASKING_KEY" -> consume_needs_masking_key(w, bytes)
    [] w.in_state = "WS_NEEDS_PAYLOAD" -> consume_needs_payload(w, bytes)
    [] OTHER -> [w EXCEPT !.in_state = "WS_CLOSED"]

\* The assert(nbytes == ...) at the head of the consume_* function of the state.
AssertHolds(w, nbytes) ==
  CASE w.in_state \in {"WS_NEEDS_INITIAL", "WS_NEEDS_LENGTH_16"} -> nbytes = 2
    [] w.in_state = "WS_NEEDS_LENGTH_64" -> nbytes = 8
    [] w.in_state = "WS_NEEDS_MASKING_KEY" -> nbytes = 4
    [] w.in_state = "WS_NEEDS_PAYLOAD" -> nbytes = w.in_frame_nbytes
    [] OTHER -> TRUE

\* ---------------------------------------------------- the opening handshake
\* Base64(SHA1(key || GUID)), on the keys that occur.
SecWebSocketAccept(key) ==
  CASE key = "dGhlIHNhbXBsZSBub25jZQ==" -> "s3pPLMBiTxaQ9kYGzzhZRbK+xOo="
    [] key = "AQIDBAUGBwgJCgsMDQ4PEA==" -> "C/0nmHhBztSRGR1CwL6Tf4ZjwpY="
    [] OTHER -> "?"

\* A reject that leaves Connection as it is.
websocket_accept_http_request_reject_bare(response, status_code) ==
  http_response_set_status_code(response, status_code)

websocket_accept_http_request_reject(response, status_code) ==
  http_response_add_header(http_response_set_status_code(response, status_code),
                           "Connection", "Close")

\* The handshake with the Origin check moved in front of the Upgrade check.
websocket_accept_http_request_origin_first(w, response, req) ==
  LET Reject(r, code) ==
        [ws |-> w, response |-> websocket_accept_http_request_reject(r, code)]
      upgrade == http_request_find_header(req, "Upgrade")
      connection == http_request_find_header(req, "Connection")
      origin == http_request_find_header(req, "Origin")
      version == http_request_find_header(req, "Sec-WebSocket-Version")
      key == http_request_find_header(req, "Sec-WebSocket-Key")
      r1 == http_response_set_version(response, req.version_major,
                                      req.version_minor)
  IN IF req.version_major # 1 \/ req.version_minor < 1 THEN Reject(response, 505)
     ELSE IF ~origin.found THEN Reject(r1, 403)
     ELSE IF ~upgrade.found \/ ~EqualNoCase("websocket", upgrade.value)
     THEN Reject(r1, 400)
     ELSE IF ~connection.found \/ ~EqualNoCase("upgrade", connection.value)
     THEN Reject(r1, 400)
     ELSE IF ~version.found \/ version.value # "13"
     THEN [ws |-> w,
           response |-> http_response_add_header(
                          websocket_accept_http_request_reject(r1, 400),
                          "Sec-WebSocket-Version", "13")]
     ELSE IF ~key.found THEN Reject(r1, 400)
     ELSE [ws |-> [w EXCEPT !.in_state = "WS_NEEDS_INITIAL", !.watermark = 2,
                            !.ping_event = TRUE],
           response |->
             http_response_add_header(
               http_response_add_header(
                 http_response_add_header(
                   http_response_set_status_code(r1, 101),
                   "Connection", "Upgrade"),
                 "Upgrade", "websocket"),
               "Sec-WebSocket-Accept", SecWebSocketAccept(key.value))]

\* websocket_accept_http_request: the checks in the order of the code, the
\* response it fills in and the engine it leaves.
websocket_accept_http_request(w, response, req) ==
  LET Reject(r, code) ==
        [ws |-> w, response |-> websocket_accept_http_request_reject(r, code)]
      upgrade == http_request_find_header(req, "Upgrade")
      connection == http_request_find_header(req, "Connection")
      origin == http_request_find_header(req, "Origin")
      version == http_request_find_header(req, "Sec-WebSocket-Version")
      key == http_request_find_header(req, "Sec-WebSocket-Key")
      r1 == http_response_set_version(response, req.version_major,
                                      req.version_minor)
  IN IF req.version_major # 1 \/ req.version_minor < 1 THEN Reject(response, 505)
     ELSE IF ~upgrade.found \/ ~EqualNoCase("websocket", upgrade.value)
     THEN Reject(r1, 400)
     ELSE IF ~connection.found \/ ~EqualNoCase("upgrade", connection.value)
     THEN Reject(r1, 400)
     ELSE IF ~origin.found THEN Reject(r1, 403)
     ELSE IF ~version.found \/ version.value # "13"
     THEN [ws |-> w,
           response |-> http_response_add_header(
                          websocket_accept_http_request_reject(r1, 400),
                          "Sec-WebSocket-Version", "13")]
     ELSE IF ~key.found THEN Reject(r1, 400)
     ELSE [ws |-> [w EXCEPT !.in_state = "WS_NEEDS_INITIAL", !.watermark = 2,
                            !.ping_event = TRUE],
           response |->
             http_response_add_header(
               http_response_add_header(
                 http_response_add_header(
                   http_response_set_status_code(r1, 101),
                   "Connection", "Upgrade"),
                 "Upgrade", "websocket"),
               "Sec-WebSocket-Accept", SecWebSocketAccept(key.value))]

\* ------------------------------------------------------ the client connection
\* websocket_init under client_connection_create: the engine waits for the
\* HTTP upgrade; the bufferevent has no read watermark yet.
websocket_init ==
  [in_state |-> "WS_NEEDS_HTTP_UPGRADE", watermark |-> 0,
   in_frame_is_final |-> FALSE, in_frame_opcode |-> 0,
   in_frame_nbytes |-> 0, in_frame_masking_key |-> <<0, 0, 0, 0>>,
   in_frame_buffer |-> <<>>, in_message_buffer |-> <<>>,
   in_message_is_continuing |-> FALSE, in_message_is_binary |-> FALSE,
   cb_calls |-> <<>>, output |-> <<>>, ping_event |-> FALSE, ping_count |-> 0]

\* The connection client_connection_create puts into the registry.
NewClient ==
  [registered |-> TRUE, needs_shutdown |-> FALSE, is_shutdown |-> FALSE,
   fd |-> "open", response |-> http_response_init, io |-> <<>>]

\* client_connection_shutdown: unless is_shutdown is set, reading and writing
\* are disabled on the bufferevent (when there still is one) and the socket
\* is shut down.  io lists what is done to the bufferevent and the socket.
client_connection_shutdown(c) ==
  IF ~c.is_shutdown
  THEN [c EXCEPT !.io = @ \o (IF c.registered THEN <<"bufferevent_disable">>
                              ELSE <<>>) \o <<"shutdown">>,
                 !.fd = IF @ = "open" THEN "shutdown" ELSE @]
  ELSE c

\* _client_connection_destroy, reached through client_connection_destroy:
\* the connection leaves the registry; the callbacks are cleared and the
\* bufferevent disabled; request and response are destroyed;
\* pubsub_manager_unsubscribe_all is called for the engine's websocket and
\* websocket_destroy deletes the PING event and frees the engine; the
\* bufferevent is freed (client->bev = NULL), the socket shut down and
\* closed, the connection freed.  The freed structs keep their last content here, so that
\* properties can speak about it.
\* A mutant of DestroyClient: the engine is destroyed before
\* pubsub_manager_unsubscribe_all is called with it.
DestroyClient_engine_first(w, c) ==
  [ws |-> [w EXCEPT !.ping_event = FALSE],
   client |-> [client_connection_shutdown(
                 [c EXCEPT !.registered = FALSE,
                           !.io = @ \o <<"bufferevent_setcb",
                                         "bufferevent_disable",
                                         "http_request_destroy",
                                         "http_response_destroy",
                                         "websocket_destroy",
                                         "pubsub_manager_unsubscribe_all",
                                         "bufferevent_free">>])
               EXCEPT !.fd = "closed", !.io = @ \o <<"close", "free">>]]

DestroyClient(w, c) ==
  [ws |-> [w EXCEPT !.ping_event = FALSE],
   client |-> [client_connection_shutdown(
                 [c EXCEPT !.registered = FALSE,
                           !.io = @ \o <<"bufferevent_setcb",
                                         "bufferevent_disable",
                                         "http_request_destroy",
                                         "http_response_destroy",
                                         "pubsub_manager_unsubscribe_all",
                                         "websocket_destroy",
                                         "bufferevent_free">>])
               EXCEPT !.fd = "closed", !.io = @ \o <<"close", "free">>]]

\* on_read_initial copies the Cookie header of the request.
CopyCookie(response, cookie) ==
  IF cookie.found
  THEN http_response_add_header(response, cookie.name, cookie.value)
  ELSE response

\* on_read_initial writes the response the handshake (a) has filled in.
WriteResponse(c, a) ==
  [ws |-> http_response_write_evbuffer(a.ws, a.response),
   client |-> [c EXCEPT !.response = a.response]]

\* on_read_initial after http_request_parse has returned p: nothing is
\* written when the request did not parse.
ParsedInitial(w, c, p) ==
  IF p.status # STATUS_OK THEN [ws |-> w, client |-> c]
  ELSE WriteResponse(c,
         websocket_accept_http_request(
           w, CopyCookie(c.response, http_request_find_header(p.req, "Cookie")),
           p.req))

\* on_read_initial: the request is parsed, its Cookie header copied, the
\* handshake decides and the response goes to the bufferevent.
on_read_initial(w, c, buf) ==
  ParsedInitial(w, c, http_request_parse(http_request_init, buf))

\* on_read_websocket without the teardown of a closed engine.
on_read_websocket_keep(w, c, buf) ==
  [ws |-> websocket_consume(w, buf), client |-> c]

\* on_read_websocket: the engine consumes the bytes; a closed engine takes
\* its connection with it.
on_read_websocket(w, c, buf) ==
  LET w2 == websocket_consume(w, buf) IN
  IF w2.in_state = "WS_CLOSED" THEN DestroyClient(w2, c)
  ELSE [ws |-> w2, client |-> c]

\* The request of section 1.3 of RFC 6455.
SampleRequest ==
  <<RequestLine("GET", "", 1, 1),
    HeaderLine("Host", "example.com"),
    HeaderLine("Upgrade", "websocket"),
    HeaderLine("Connection", "Upgrade"),
    HeaderLine("Origin", "http://example.com"),
    HeaderLine("Sec-WebSocket-Version", "13"),
    HeaderLine("Sec-WebSocket-Key", "dGhlIHNhbXBsZSBub25jZQ=="),
    EmptyLine>>

\* A connection that has just been accepted.
InitConn ==
  /\ websocket = websocket_init
  /\ client = NewClient
  /\ bev_input = <<>>
  /\ wire = <<>>
  /\ sent = <<>>
  /\ ws_aborted = FALSE
  /\ received = <<>>
  /\ written = <<>>
  /\ request = <<>>

\* The connection up, with what it has written handed over to the client.
Delivered(up) ==
  /\ websocket = [up.ws EXCEPT !.output = <<>>]
  /\ client = up.client
  /\ received = up.ws.output

\* A connection whose client has sent SampleRequest and has received the
\* answer: the reader waits for a frame header.
InitWS ==
  /\ Delivered(on_read_initial(websocket_init, NewClient, SampleRequest))
  /\ request = SampleRequest
  /\ bev_input = <<>>
  /\ wire = <<>>
  /\ sent = <<>>
  /\ written = <<>>
  /\ ws_aborted = FALSE

\* The client writes one more message (n bytes, text or binary, whole or in
\* two fragments).
ClientSend(n, binary, split) ==
  /\ ~ws_aborted
  /\ websocket.in_state # "WS_CLOSED"
  /\ Len(sent) < MaxMsgs
  /\ split <= n
  /\ sent' = Append(sent, [binary |-> binary, bytes |-> Message(n)])
  /\ wire' = wire \o EncodeMessage(Message(n), binary, split)
  /\ UNCHANGED <<websocket, bev_input, ws_aborted, client, received, written,
                 request>>

\* on_read after on_read_initial has returned i: a connection that was not
\* upgraded is dropped.
DropUnlessUpgraded(i) ==
  IF i.ws.in_state = "WS_NEEDS_HTTP_UPGRADE"
  THEN DestroyClient(i.ws, [i.client EXCEPT !.needs_shutdown = TRUE])
  ELSE i

\* on_read returns, leaving r.  When the connection was torn down in the
\* handler that wrote to it, what bufferevent_flush did decides: the output
\* has reached the client, or it is still in the buffer bufferevent_free
\* discards.
ReadReturns(r) ==
  /\ client' = r.client
  /\ IF r.client.registered
     THEN /\ websocket' = r.ws
          /\ UNCHANGED received
     ELSE \E flushed \in BOOLEAN :
            /\ websocket' = [r.ws EXCEPT !.output = <<>>]
            /\ received' = IF flushed /\ r.ws.output # websocket.output
                           THEN received \o r.ws.output
                           ELSE received

\* on_read, entered with the bufferevent's input buffer holding input: up to
\* sizeof(buf) bytes are taken.  Before the upgrade they go to
\* on_read_initial, after it to on_read_websocket.  A failed assert aborts
\* the process, unless the build defines NDEBUG (ndebug).
on_read(input, ndebug) ==
  /\ bev_input' = SubSeq(input, Min(Len(input), ReadBufferSize) + 1, Len(input))
  /\ IF AssertHolds(websocket, Min(Len(input), ReadBufferSize)) \/ ndebug
     THEN /\ ReadReturns(
               IF websocket.in_state = "WS_NEEDS_HTTP_UPGRADE"
               THEN DropUnlessUpgraded(
                      on_read_initial(websocket, client,
                        SubSeq(input, 1, Min(Len(input), ReadBufferSize))))
               ELSE on_read_websocket(websocket, client,
                      SubSeq(input, 1, Min(Len(input), ReadBufferSize))))
          /\ UNCHANGED ws_aborted
     ELSE /\ ws_aborted' = TRUE
          /\ UNCHANGED <<websocket, client, received>>

\* The socket is readable: the bufferevent moves up to k bytes into its input
\* buffer, never past the high watermark (0: no limit), and calls on_read once
\* the buffer holds the low watermark.
BuffereventRead(k, ndebug) ==
  /\ ~ws_aborted
  /\ client.registered
  /\ wire # <<>>
  /\ LET room == IF websocket.watermark = 0 THEN Len(wire)
                 ELSE websocket.watermark - Len(bev_input)
         take == Min(k, Min(room, Len(wire)))
         input == bev_input \o SubSeq(wire, 1, take)
     IN /\ take > 0
        /\ wire' = SubSeq(wire, take + 1, Len(wire))
        /\ IF Len(input) < websocket.watermark
           THEN /\ bev_input' = input
                /\ UNCHANGED <<websocket, ws_aborted, client, received>>
           ELSE on_read(input, ndebug)
  /\ UNCHANGED <<sent, written, request>>

\* ------------------------------------------------- a client writing frames
\* The payload of the i-th frame a client writes: n times AA, BB, CC, ...
FragmentBytes(i, n) == [j \in 1..n |-> 170 + 17 * (i - 1)]

\* A frame as the client chooses it: its FIN bit, RSV bits and opcode, whether
\* it is masked, the payload length its header declares and the number of
\* payload bytes the client writes behind the header.
Frame(fin, rsv, opcode, masked, declared, n) ==
  [fin |-> fin, rsv |-> rsv, opcode |-> opcode, masked |-> masked,
   declared |-> declared, n |-> n]

\* The frames a client writes.
FrameKinds ==
  {Frame(fin, 0, opcode, TRUE, n, n) :
     fin \in BOOLEAN,
     opcode \in {WS_OPCODE_CONTINUATION_FRAME, WS_OPCODE_TEXT_FRAME,
                 WS_OPCODE_BINARY_FRAME},
     n \in {0, 1}}
  \cup {Frame(TRUE, 0, WS_OPCODE_PING, TRUE, n, n) : n \in {0, 2}}
  \cup {Frame(TRUE, 0, WS_OPCODE_PONG, TRUE, 1, 1),
        Frame(TRUE, 0, WS_OPCODE_CONNECTION_CLOSE, TRUE, 0, 0),
        Frame(TRUE, 0, 3, TRUE, 1, 1),
        Frame(TRUE, 4, WS_OPCODE_TEXT_FRAME, TRUE, 1, 1),
        Frame(TRUE, 1, WS_OPCODE_BINARY_FRAME, TRUE, 1, 1),
        Frame(TRUE, 0, WS_OPCODE_TEXT_FRAME, FALSE, 1, 1),
        Frame(TRUE, 0, WS_OPCODE_BINARY_FRAME, TRUE, MAX_PAYLOAD_LENGTH, 1),
        Frame(TRUE, 0, WS_OPCODE_BINARY_FRAME, TRUE, MAX_PAYLOAD_LENGTH + 1, 1)}

\* The bytes of the frame (RFC 6455, section 5.2).
EncodeRaw(f, payload) ==
  LET length == EncodeLength(f.declared) IN
  <<(IF f.fin THEN 128 ELSE 0) + 16 * f.rsv + f.opcode>>
    \o (IF f.masked
        THEN length \o MaskingKey \o Unmask(payload, MaskingKey)
        ELSE <<length[1] - 128>> \o Tail(length) \o payload)

\* The reader is between two frames and has read all the client has written.
AtFrameBoundary ==
  /\ websocket.in_state = "WS_NEEDS_INITIAL"
  /\ wire = <<>>
  /\ bev_input = <<>>

\* The client writes one more frame.  With the frame are kept the state of
\* the reassembly and of the output at that moment, and whether the reader
\* was then between two frames.
ClientFrame(f) ==
  /\ ~ws_aborted
  /\ client.registered
  /\ websocket.in_state # "WS_NEEDS_HTTP_UPGRADE"
  /\ Len(written) < MaxFrames
  /\ LET payload == FragmentBytes(Len(written) + 1, f.n) IN
     /\ wire' = wire \o EncodeRaw(f, payload)
     /\ written' = Append(written,
          [fin |-> f.fin, rsv |-> f.rsv, opcode |-> f.opcode,
           masked |-> f.masked, declared |-> f.declared, payload |-> payload,
           nbytes |-> Len(EncodeRaw(f, payload)),
           at_boundary |-> AtFrameBoundary,
           in_message_is_continuing |-> websocket.in_message_is_continuing,
           in_message_is_binary |-> websocket.in_message_is_binary,
           in_message_buffer |-> websocket.in_message_buffer,
           cb_calls |-> websocket.cb_calls,
           output |-> websocket.output])
  /\ UNCHANGED <<websocket, bev_input, sent, ws_aborted, client, received,
                 request>>

\* ------------------------------------------- a client asking for the upgrade
\* A header line, unless the client leaves the header out (value "").
OptHeader(name, value, lower) ==
  IF value = "" THEN <<>>
  ELSE <<HeaderLine(IF lower THEN ToLower(name) ELSE name, value)>>

\* The request a client writes: "whole", with a first line that is no
\* request line ("garbage"), or without the empty line ("unterminated").
MakeRequest(shape, lower, version, host, upgrade, connection, origin, wsversion, key, cookie) ==
  <<IF shape = "garbage" THEN GarbageLine
    ELSE RequestLine("GET", "", version[1], version[2])>>
    \o OptHeader("Host", host, lower)
    \o OptHeader("Upgrade", upgrade, lower)
    \o OptHeader("Connection", connection, lower)
    \o OptHeader("Origin", origin, lower)
    \o OptHeader("Sec-WebSocket-Version", wsversion, lower)
    \o OptHeader("Sec-WebSocket-Key", key, lower)
    \o OptHeader("Cookie", cookie, lower)
    \o (IF shape = "unterminated" THEN <<>> ELSE <<EmptyLine>>)

RequestShapes == {"whole", "garbage", "unterminated"}
Versions == {<<1, 0>>, <<1, 1>>, <<2, 0>>}
HostValues == {"", "example.com"}
UpgradeValues == {"", "websocket", "WebSocket", "h2c"}
ConnectionValues == {"", "Upgrade", "upgrade", "keep-alive"}
OriginValues == {"", "http://example.com"}
WsVersionValues == {"", "13", "8"}
KeyValues == {"", "AQIDBAUGBwgJCgsMDQ4PEA=="}
CookieValues == {"", "sid=1"}

\* The client writes its request.
ClientRequest(req) ==
  /\ client.registered
  /\ websocket.in_state = "WS_NEEDS_HTTP_UPGRADE"
  /\ request = <<>>
  /\ request' = req
  /\ wire' = req
  /\ UNCHANGED <<websocket, bev_input, sent, ws_aborted, client, received,
                 written>>

\* ------------------------------------------------ the other libevent callbacks
\* A mutant of on_timeout_sendping: every PING carries the same text.
on_timeout_sendping_stuck ==
  /\ ~ws_aborted
  /\ client.registered
  /\ websocket.ping_event
  /\ websocket.ping_count < MaxPings
  /\ websocket' =
       IF websocket.in_state \in {"WS_NEEDS_HTTP_UPGRADE", "WS_CLOSED"}
       THEN websocket
       ELSE send_ping([websocket EXCEPT !.ping_count = @ + 1], Decimal(0))
  /\ UNCHANGED <<bev_input, wire, sent, ws_aborted, client, received, written,
                 request>>

\* on_timeout_sendping: the PING event fires.
on_timeout_sendping ==
  /\ ~ws_aborted
  /\ client.registered
  /\ websocket.ping_event
  /\ websocket.ping_count < MaxPings
  /\ websocket' =
       IF websocket.in_state \in {"WS_NEEDS_HTTP_UPGRADE", "WS_CLOSED"}
       THEN websocket
       ELSE send_ping([websocket EXCEPT !.ping_count = @ + 1],
                      Decimal(websocket.ping_count))
  /\ UNCHANGED <<bev_input, wire, sent, ws_aborted, client, received, written,
                 request>>

\* The socket is writable: the bufferevent writes its output buffer and calls
\* on_write, which shuts the socket down when the connection asks for it.
on_write ==
  /\ ~ws_aborted
  /\ client.registered
  /\ websocket.output # <<>>
  /\ received' = received \o websocket.output
  /\ websocket' = [websocket EXCEPT !.output = <<>>]
  /\ client' = IF client.needs_shutdown
               THEN client_connection_shutdown(client)
               ELSE client
  /\ UNCHANGED <<bev_input, wire, sent, ws_aborted, written, request>>

\* client_connection_onevent: end of file (eof), an error or a timeout on
\* the socket; whichever it is, the connection is destroyed.
client_connection_onevent(eof) ==
  /\ ~ws_aborted
  /\ client.registered
  /\ LET d == DestroyClient(websocket,
                            [client EXCEPT !.is_shutdown = @ \/ eof])
     IN /\ websocket' = [d.ws EXCEPT !.output = <<>>]
        /\ client' = d.client
  /\ UNCHANGED <<bev_input, wire, sent, ws_aborted, received, written, request>>

\* client_connection_shutdown called on the live connection by a user of
\* client_connection.h, MaxShutdowns times at most.
Shutdown ==
  /\ ~ws_aborted
  /\ client.registered
  /\ Count(client.io, "shutdown") < MaxShutdowns
  /\ client' = client_connection_shutdown(client)
  /\ UNCHANGED <<websocket, bev_input, wire, sent, ws_aborted, received,
                 written, request>>

\* ----------------------------------------- the message callback (server.c)
\* The texts a client sends, as bytes.
\* {"action":"sub","key":"a"}   (a subscribe request)
JsonSub ==
  <<123, 34, 97, 99, 116, 105, 111, 110, 34, 58, 34, 115, 117, 98, 34, 44,
    34, 107, 101, 121, 34, 58, 34, 97, 34, 125>>

\* {"action":"nop","key":"a"}   (an action the gateway does not know)
JsonNop ==
  <<123, 34, 97, 99, 116, 105, 111, 110, 34, 58, 34, 110, 111, 112, 34, 44,
    34, 107, 101, 121, 34, 58, 34, 97, 34, 125>>

\* {"action":"sub"   (a text that breaks off)
JsonCut ==
  <<123, 34, 97, 99, 116, 105, 111, 110, 34, 58, 34, 115, 117, 98, 34>>

\* The texts a client sends as messages; the empty text is one of them.
MsgTexts == {JsonSub, JsonNop, JsonCut, <<>>}

\* The socket of the connection whose reader Part II models.
MsgSocket == 1

\* json_parse_n on the texts above: the object with its "action" and "key"
\* strings, or NULL (ok false) for a text that is no JSON value.
json_parse_n(bytes) ==
  CASE bytes = JsonSub -> [ok |-> TRUE, action |-> "sub", key |-> "a"]
    [] bytes = JsonNop -> [ok |-> TRUE, action |-> "nop", key |-> "a"]
    [] OTHER -> [ok |-> FALSE, action |-> "", key |-> ""]

\* process_websocket_message for an object with string "action" and "key"
\* ("pub" needs a string "data", which none of the texts has).
process_websocket_message(m, connected, ws, msg) ==
  CASE msg.action = "pub" -> m
    [] msg.action = "sub" -> pubsub_manager_subscribe(m, connected, msg.key, ws)
    [] msg.action = "unsub" -> pubsub_manager_unsubscribe(m, connected, msg.key, ws)
    [] OTHER -> m

\* handle_websocket_message, the in_message_cb of every websocket: a binary
\* message is dropped; evbuffer_pullup of an empty buffer gives NULL; a text
\* json_parse_n refuses is dropped.
handle_websocket_message(m, connected, ws, call) ==
  IF call.binary THEN m
  ELSE IF call.bytes = <<>> THEN m
  ELSE IF ~json_parse_n(call.bytes).ok THEN m
  ELSE process_websocket_message(m, connected, ws, json_parse_n(call.bytes))

\* The callback runs for each of the calls, in their order.
RECURSIVE HandleCalls(_, _, _, _)
HandleCalls(m, connected, ws, calls) ==
  IF calls = <<>> THEN m
  ELSE HandleCalls(
         [handle_websocket_message(m, connected, ws, Head(calls)) EXCEPT
            !.cmds = m.cmds \o @],
         connected, ws, Tail(calls))

\* The client writes one more message: one of the texts, as a text or a
\* binary message, whole or in two fragments.
ClientText(bytes, binary, split) ==
  /\ ~ws_aborted
  /\ websocket.in_state # "WS_CLOSED"
  /\ Len(sent) < MaxMsgs
  /\ split <= Len(bytes)
  /\ sent' = Append(sent, [binary |-> binary, bytes |-> bytes])
  /\ wire' = wire \o EncodeMessage(bytes, binary, split)
  /\ UNCHANGED <<websocket, bev_input, ws_aborted, client, received, written,
                 request>>

\* What the read callback of the step did to the manager: the message
\* callback ran for the messages the reader completed, and a connection the
\* callback destroyed was taken out of the tables.
Handled(calls, destroyed) ==
  IF destroyed
  THEN pubsub_manager_unsubscribe_all(
         HandleCalls(Mgr, sub_is_connected, MsgSocket, calls),
         sub_is_connected, MsgSocket)
  ELSE HandleCalls(Mgr, sub_is_connected, MsgSocket, calls)

\* BuffereventRead with the effects of its callbacks on the fan-out manager.
ReadAndHandle(k, ndebug) ==
  /\ BuffereventRead(k, ndebug)
  /\ Commit(Handled(SubSeq(websocket'.cb_calls, Len(websocket.cb_calls) + 1,
                           Len(websocket'.cb_calls)),
                    ~client'.registered))
  /\ clients' = IF client'.registered THEN clients ELSE clients \ {MsgSocket}
  /\ UNCHANGED <<pub_is_connected, sub_is_connected, pub_ctx, sub_ctx,
                 sub_replies, redis_subs>>

\* The ways the client fragments a message of n bytes (-1: one FIN frame).
Splits == {-1, 0, 1, 4}

\* ======================================================================
\* Part III: the library functions
\* ======================================================================
VARIABLES
  pool_table,         \* pool->table: per hash bucket, its chain of nodes
  pool_held,          \* per address: pointers the callers hold (gets not yet released)
  pool_gets,          \* per address: gets answered with it since its node was allocated
  pool_puts,          \* per address: releases of it since its node was allocated
  pool_ret,           \* what the last call returned
  http_req,           \* a struct http_request and its header list
  http_adds,          \* the headers added to it, in order
  fn_arg,             \* the input of a function that is called on its own
  fn_done,            \* whether it has been called
  fn_ret              \* what it returned

poolvars == <<pool_table, pool_held, pool_gets, pool_puts, pool_ret>>
hdrvars == <<http_req, http_adds>>
fnvars == <<fn_arg, fn_done, fn_ret>>
libvars == <<poolvars, hdrvars, fnvars>>

\* -------------------------------------------- the string pool, with pointers
PoolStrings == {"a", "b", "c"}      \* the strings the callers intern
Addrs == {1, 2, 3}                  \* addresses malloc hands out for node->str
NullPtr == 0
PoolBuckets == {0, 1}               \* the buckets the strings hash to

\* XXH64(str) % HASHTABLE_NBUCKETS: "a" and "b" share a bucket, "c" has its own.
PoolBucket(str) == IF str = "c" THEN 1 ELSE 0

\* struct node (its next pointer is the order of the chain).
PoolNode(addr, str, refcount) == [str_addr |-> addr, str |-> str, refcount |-> refcount]

\* The first place of the chain that holds one of the places in hits (0: none).
FirstOf(hits) == IF hits = {} THEN 0 ELSE CHOOSE i \in hits : \A j \in hits : i <= j

\* The chain without its i-th node.
Unlink(chain, i) == SubSeq(chain, 1, i - 1) \o SubSeq(chain, i + 1, Len(chain))

\* The body of string_pool_get once the walk has ended at place i of the
\* chain (strcmp found the string), or past its end (i = 0): a new node is
\* linked behind the last one.  fresh is what malloc returns.
PoolGetAt(tbl, b, i, lookup, fresh) ==
  IF i = 0
  THEN [table |-> [tbl EXCEPT ![b] = Append(@, PoolNode(fresh, lookup, 1))],
        ret |-> fresh]
  ELSE [table |-> [tbl EXCEPT ![b][i].refcount = @ + 1],
        ret |-> tbl[b][i].str_addr]

\* A mutant of string_pool_get_ptr: only the head of the chain is compared.
string_pool_get_ptr_head(tbl, lookup, fresh) ==
  PoolGetAt(tbl, PoolBucket(lookup),
            FirstOf({i \in 1..Len(tbl[PoolBucket(lookup)]) :
                       i = 1 /\ tbl[PoolBucket(lookup)][i].str = lookup}),
            lookup, fresh)

\* string_pool_get, returning the table and the pointer.
string_pool_get_ptr(tbl, lookup, fresh) ==
  PoolGetAt(tbl, PoolBucket(lookup),
            FirstOf({i \in 1..Len(tbl[PoolBucket(lookup)]) :
                       tbl[PoolBucket(lookup)][i].str = lookup}),
            lookup, fresh)

\* The body of string_pool_release once the walk has ended at place i.
PoolReleaseAt(tbl, b, i) ==
  IF i = 0 THEN [table |-> tbl, ret |-> STATUS_BAD]
  ELSE IF tbl[b][i].refcount = 1
  THEN [table |-> [tbl EXCEPT ![b] = Unlink(@, i)], ret |-> STATUS_OK]
  ELSE [table |-> [tbl EXCEPT ![b][i].refcount = @ - 1], ret |-> STATUS_OK]

\* string_pool_release of the pointer ptr, whose bytes are str: the chain of
\* the bucket of str is walked comparing pointers.
string_pool_release_ptr(tbl, str, ptr) ==
  PoolReleaseAt(tbl, PoolBucket(str),
                FirstOf({i \in 1..Len(tbl[PoolBucket(str)]) :
                           tbl[PoolBucket(str)][i].str_addr = ptr}))

\* The nodes of the pool.
PoolNodes(tbl) == UNION {{tbl[b][i] : i \in 1..Len(tbl[b])} : b \in PoolBuckets}

LiveAddrs(tbl) == {n.str_addr : n \in PoolNodes(tbl)}

\* The bytes at a pointer the pool has handed out.
Deref(tbl, ptr) == (CHOOSE n \in PoolNodes(tbl) : n.str_addr = ptr).str

InitPool ==
  /\ pool_table = [b \in PoolBuckets |-> <<>>]
  /\ pool_held = [x \in Addrs |-> 0]
  /\ pool_gets = [x \in Addrs |-> 0]
  /\ pool_puts = [x \in Addrs |-> 0]
  /\ pool_ret = NullPtr

\* The books after a get that returned ptr (a node allocated by the call
\* starts a new count).
PoolGot(ptr, allocated) ==
  /\ pool_held' = [pool_held EXCEPT ![ptr] = @ + 1]
  /\ pool_gets' = [pool_gets EXCEPT ![ptr] = IF allocated THEN 1 ELSE @ + 1]
  /\ pool_puts' = [pool_puts EXCEPT ![ptr] = IF allocated THEN 0 ELSE @]
  /\ pool_ret' = ptr

\* A caller interns lookup; malloc, if called, returns fresh.
PoolGet(lookup, fresh) ==
  /\ fresh \notin LiveAddrs(pool_table)
  /\ \A n \in PoolNodes(pool_table) : n.str = lookup => pool_gets[n.str_addr] < MaxGets
  /\ pool_table' = string_pool_get_ptr(pool_table, lookup, fresh).table
  /\ PoolGot(string_pool_get_ptr(pool_table, lookup, fresh).ret,
             string_pool_get_ptr(pool_table, lookup, fresh).ret
               \notin LiveAddrs(pool_table))

\* A caller gives back a pointer it holds.
PoolRelease(ptr) ==
  /\ pool_held[ptr] > 0
  /\ pool_table' = string_pool_release_ptr(pool_table, Deref(pool_table, ptr), ptr).table
  /\ pool_ret' = string_pool_release_ptr(pool_table, Deref(pool_table, ptr), ptr).ret
  /\ pool_held' = [pool_held EXCEPT ![ptr] = @ - 1]
  /\ pool_puts' = [pool_puts EXCEPT ![ptr] = @ + 1]
  /\ UNCHANGED pool_gets

\* ------------------------------------------------- the header list (http.c)
HeaderNames == {"Host", "host", "HOST", "Upgrade", "upgrade", "UPGRADE"}
HeaderValues == {"x", "y"}

InitHeaders ==
  /\ http_req = http_request_init
  /\ http_adds = <<>>

\* http_request_add_header: one more header for the request.
HeaderAdd(name, value) ==
  /\ Len(http_adds) < MaxAdds
  /\ http_req' = [http_req EXCEPT !.header = http_header_add(@, name, value)]
  /\ http_adds' = Append(http_adds, [name |-> name, value |-> value])

\* ------------------------------------------------- the lexer (src/lexer.c)
\* A lexer is the bytes from lex->upto to lex->end.  A uint32_t is kept as
\* its two 16-bit halves <<high, low>>.
Half == 65536

isdigit(c) == c \in 48..57

\* num = (10 * num) + (c - '0'), in uint32_t arithmetic.
TimesTenPlus(num, c) ==
  <<(10 * num[1] + (10 * num[2] + (c - 48)) \div Half) % Half,
    (10 * num[2] + (c - 48)) % Half>>

\* The loop of lexer_consume_uint32 after its first digit.
RECURSIVE ConsumeDigits(_, _)
ConsumeDigits(lex, num) ==
  IF lex = <<>> \/ ~isdigit(Head(lex))
  THEN [ok |-> TRUE, lex |-> lex, number |-> num]
  ELSE ConsumeDigits(Tail(lex), TimesTenPlus(num, Head(lex)))

\* lexer_consume_uint32: false, the lexer where it was, when no digit is
\* next; else the digits are consumed and their number is stored.
lexer_consume_uint32(lex) ==
  IF lex = <<>> \/ ~isdigit(Head(lex))
  THEN [ok |-> FALSE, lex |-> lex, number |-> <<0, 0>>]
  ELSE ConsumeDigits(lex, <<0, 0>>)

\* The inputs of lexer_consume_uint32: the runs of one or two digits, and
\* runs around 2^32, some with a byte that ends the run.
DigitRuns ==
  {<<a>> : a \in 48..57} \cup {<<a, b>> : a, b \in 48..57} \cup {
    <<52, 50, 57, 52, 57, 54, 55, 50, 57, 53>>,   \* 4294967295
    <<52, 50, 57, 52, 57, 54, 55, 50, 57, 54>>,   \* 4294967296
    <<52, 50, 57, 52, 57, 54, 55, 50, 57, 55>>,   \* 4294967297
    <<57, 57, 57, 57, 57, 57, 57, 57, 57, 57>>,   \* 9999999999
    <<52, 50, 57, 52, 57, 54, 55, 50, 57, 53, 48>>,   \* 42949672950
    <<54, 53, 53, 51, 54>>,   \* 65536
    <<52, 50, 57, 52, 57, 54, 55, 50, 57, 53, 46>>,   \* 4294967295.
    <<52, 50, 57, 52, 57, 54, 55, 51, 48, 49, 46, 57>>    \* 4294967301.9
  }

U32Before ==
  /\ fn_arg \in DigitRuns
  /\ fn_done = FALSE
  /\ fn_ret = [ok |-> FALSE, lex |-> <<>>, number |-> <<0, 0>>]

\* lexer_consume_uint32 is called on the input.
ConsumeU32 ==
  /\ ~fn_done
  /\ fn_done' = TRUE
  /\ fn_ret' = lexer_consume_uint32(fn_arg)
  /\ UNCHANGED fn_arg

\* ------------------------------------------- the request line (http.c)
SP == 32
HT == 9
CRLF == <<13, 10>>

\* lexer_nremaining(lex) >= n && lexer_memcmp(lex, str, n) == 0, n the length of str.
StartsWith(lex, str) == Len(lex) >= Len(str) /\ SubSeq(lex, 1, Len(str)) = str

\* lexer_consume(lex, n)
Consume(lex, n) == SubSeq(lex, n + 1, Len(lex))

\* The run of SP and HT at the front is consumed.
RECURSIVE ConsumeBlanks(_)
ConsumeBlanks(lex) ==
  IF lex # <<>> /\ Head(lex) \in {SP, HT} THEN ConsumeBlanks(Tail(lex)) ELSE lex

\* lexer_consume_lws: an optional CRLF, then one or more SP or HT; without
\* them the lexer is put back where it was.  skip is the outcome of the test
\* for the CRLF, lexer_strcmp, which src/ nowhere defines.
lexer_consume_lws(lex, skip) ==
  IF ConsumeBlanks(IF Len(lex) >= 2 /\ skip THEN Consume(lex, 2) ELSE lex)
       = (IF Len(lex) >= 2 /\ skip THEN Consume(lex, 2) ELSE lex)
  THEN lex
  ELSE ConsumeBlanks(IF Len(lex) >= 2 /\ skip THEN Consume(lex, 2) ELSE lex)

\* The methods, as bytes: GET PUT HEAD POST TRACE DELETE CONNECT OPTIONS.
MethodBytes == {
    <<71, 69, 84>>,
    <<80, 85, 84>>,
    <<72, 69, 65, 68>>,
    <<80, 79, 83, 84>>,
    <<84, 82, 65, 67, 69>>,
    <<68, 69, 76, 69, 84, 69>>,
    <<67, 79, 78, 78, 69, 67, 84>>,
    <<79, 80, 84, 73, 79, 78, 83>>
  }

\* The method that parse_http_method finds at the front: the names are tried
\* in the order of their lengths, DELETE by its first five bytes.
MethodAt(lex) ==
  CASE StartsWith(lex, <<71, 69, 84>>) -> "GET"
    [] StartsWith(lex, <<80, 85, 84>>) -> "PUT"
    [] StartsWith(lex, <<72, 69, 65, 68>>) -> "HEAD"
    [] StartsWith(lex, <<80, 79, 83, 84>>) -> "POST"
    [] StartsWith(lex, <<84, 82, 65, 67, 69>>) -> "TRACE"
    [] Len(lex) >= 6 /\ StartsWith(lex, <<68, 69, 76, 69, 84>>) -> "DELETE"
    [] StartsWith(lex, <<67, 79, 78, 78, 69, 67, 84>>) -> "CONNECT"
    [] StartsWith(lex, <<79, 80, 84, 73, 79, 78, 83>>) -> "OPTIONS"
    [] OTHER -> ""

MethodLength(method) ==
  CASE method \in {"GET", "PUT"} -> 3
    [] method \in {"HEAD", "POST"} -> 4
    [] method = "TRACE" -> 5
    [] method = "DELETE" -> 6
    [] method \in {"CONNECT", "OPTIONS"} -> 7
    [] OTHER -> 0

\* What a parsing function of http.c leaves: its status, the request and
\* the lexer.
Parsed(status, req, lex) == [status |-> status, req |-> req, lex |-> lex]

\* A zeroed struct http_request (its request line fields).
ZeroRequest ==
  [method |-> "", uri_asterisk |-> FALSE, path |-> <<>>,
   version_major |-> <<0, 0>>, version_minor |-> <<0, 0>>]

parse_http_method(req, lex) ==
  IF MethodAt(lex) = "" THEN Parsed(STATUS_BAD, req, lex)
  ELSE Parsed(STATUS_OK, [req EXCEPT !.method = MethodAt(lex)],
              Consume(lex, MethodLength(MethodAt(lex))))

\* parse_http_version after the major number.
VersionMinor(req, lex, major, skips) ==
  IF ~major.ok THEN Parsed(STATUS_BAD, req, major.lex)
  ELSE IF major.lex = <<>> \/ Head(major.lex) # 46
  THEN Parsed(STATUS_BAD, [req EXCEPT !.version_major = major.number], major.lex)
  ELSE IF ~lexer_consume_uint32(lexer_consume_lws(Tail(major.lex), skips[3])).ok
  THEN Parsed(STATUS_BAD, [req EXCEPT !.version_major = major.number],
              lexer_consume_lws(Tail(major.lex), skips[3]))
  ELSE Parsed(STATUS_OK,
              [req EXCEPT !.version_major = major.number,
                          !.version_minor = lexer_consume_uint32(
                             lexer_consume_lws(Tail(major.lex), skips[3])).number],
              lexer_consume_uint32(lexer_consume_lws(Tail(major.lex), skips[3])).lex)

\* parse_http_version after "HTTP" and the blanks behind it.
VersionSlash(req, lex, skips) ==
  IF lex = <<>> \/ Head(lex) # 47 THEN Parsed(STATUS_BAD, req, lex)
  ELSE VersionMinor(req, lex,
                    lexer_consume_uint32(lexer_consume_lws(Tail(lex), skips[2])),
                    skips)

\* HTTP-Version = "HTTP" "/" 1*DIGIT "." 1*DIGIT
parse_http_version(req, lex, skips) ==
  IF ~StartsWith(lex, <<72, 84, 84, 80>>) THEN Parsed(STATUS_BAD, req, lex)
  ELSE VersionSlash(req, lexer_consume_lws(Consume(lex, 4), skips[1]), skips)

\* The pchar among the bytes of the inputs: letters, digits, "*" and ".".
IsPchar(c) == c \in (65..90) \cup (97..122) \cup (48..57) \cup {42, 46}

\* uri_parse_path_segments on paths without parameters and escapes: the
\* segments, each a run of pchar, with "/" between them.
RECURSIVE ConsumeSegments(_, _)
ConsumeSegments(lex, first) ==
  IF lex = <<>> THEN lex
  ELSE IF IsPchar(Head(lex)) THEN ConsumeSegments(Tail(lex), FALSE)
  ELSE IF Head(lex) = 47 /\ ~first THEN ConsumeSegments(Tail(lex), FALSE)
  ELSE lex

\* uri_parse_abs_path: "/" and the path segments; the path is what was consumed.
uri_parse_abs_path(req, lex) ==
  IF lex = <<>> \/ Head(lex) # 47 THEN Parsed(STATUS_BAD, req, lex)
  ELSE Parsed(STATUS_OK,
              [req EXCEPT !.path =
                 SubSeq(lex, 1, Len(lex) - Len(ConsumeSegments(Tail(lex), TRUE)))],
              ConsumeSegments(Tail(lex), TRUE))

\* parse_http_request_uri: "*" sets the flag and returns with the lexer
\* where it was; the absolute URI and the authority are not among the inputs
\* (a request-URI that begins with neither "*" nor "/" is refused here).
parse_http_request_uri(req, lex) ==
  IF lex = <<>> THEN Parsed(STATUS_BAD, req, lex)
  ELSE IF Head(lex) = 42
  THEN Parsed(STATUS_OK, [req EXCEPT !.uri_asterisk = TRUE], lex)
  ELSE uri_parse_abs_path(req, lex)

\* parse_http_line_request from the HTTP version on.
LineVersion(v) ==
  IF v.status = STATUS_BAD THEN v
  ELSE IF ~StartsWith(v.lex, CRLF) THEN Parsed(STATUS_BAD, v.req, v.lex)
  ELSE Parsed(STATUS_OK, v.req, Consume(v.lex, 2))

\* parse_http_line_request from the second SP on.
LineSecondSpace(u, skips) ==
  IF u.status = STATUS_BAD THEN u
  ELSE IF u.lex = <<>> \/ Head(u.lex) # SP THEN Parsed(STATUS_BAD, u.req, u.lex)
  ELSE LineVersion(parse_http_version(u.req, Tail(u.lex), skips))

\* parse_http_line_request from the first SP on.
LineFirstSpace(m, skips) ==
  IF m.status = STATUS_BAD THEN m
  ELSE IF m.lex = <<>> \/ Head(m.lex) # SP THEN Parsed(STATUS_BAD, m.req, m.lex)
  ELSE LineSecondSpace(parse_http_request_uri(m.req, Tail(m.lex)), skips)

\* Request-Line = Method SP Request-URI SP HTTP-Version CRLF
parse_http_line_request(req, lex, skips) ==
  LineFirstSpace(parse_http_method(req, lex), skips)

\* The request lines that are parsed: every method; the request-URIs "*",
\* "/" and "/a"; HTTP/1.1, HTTP/1.0 and a version that is none; with and
\* without the CRLF.
RequestUris == {<<42>>, <<47>>, <<47, 97>>}
GoodVersions == {<<72, 84, 84, 80, 47, 49, 46, 49>>, <<72, 84, 84, 80, 47, 49, 46, 48>>}
BadVersions == {<<72, 84, 84, 88, 47, 49, 46, 49>>}
LineEnds == {CRLF, <<>>}

RequestLines ==
  {m \o <<SP>> \o u \o <<SP>> \o v \o e :
     m \in MethodBytes, u \in RequestUris, v \in GoodVersions \cup BadVersions,
     e \in LineEnds}

\* The outcomes of the three lexer_strcmp tests of one parse.
Skips == [1..3 -> BOOLEAN]

LineBefore ==
  /\ fn_arg \in RequestLines
  /\ fn_done = FALSE
  /\ fn_ret = Parsed(STATUS_BAD, ZeroRequest, <<>>)

\* parse_http_line_request is called on the input.
ParseLine(skips) ==
  /\ ~fn_done
  /\ fn_done' = TRUE
  /\ fn_ret' = parse_http_line_request(ZeroRequest, fn_arg, skips)
  /\ UNCHANGED fn_arg

\* ------------------------------------------------- Base64 (src/base64.c)
UINT8_MAX == 255
Pad == 61                           \* "="

\* ENCODE_TABLE: A-Z a-z 0-9 + /
ENCODE_TABLE ==
  <<
    65, 66, 67, 68, 69, 70, 71, 72, 73, 74, 75, 76, 77, 78, 79, 80,
    81, 82, 83, 84, 85, 86, 87, 88, 89, 90, 97, 98, 99, 100, 101, 102,
    103, 104, 105, 106, 107, 108, 109, 110, 111, 112, 113, 114, 115, 116, 117, 118,
    119, 120, 121, 122, 48, 49, 50, 51, 52, 53, 54, 55, 56, 57, 43, 47
  >>

\* DECODE_TABLE[c] for c < 128.
DECODE_TABLE(c) ==
  CASE c = 43 -> 62
    [] c = 47 -> 63
    [] c \in 48..57 -> c + 4
    [] c \in 65..90 -> c - 65
    [] c \in 97..122 -> c - 71
    [] OTHER -> UINT8_MAX

\* struct base64_buffer; data holds the bytes the last call wrote.
Base64Buffer(data, used, allocd) == [data |-> data, used |-> used, allocd |-> allocd]

\* base64_init
ZeroBuffer == Base64Buffer(<<>>, 0, 0)

B64Result(status, buffer) == [status |-> status, buffer |-> buffer]

\* ENCODE_TABLE[(bytes >> shift) & 0x3f], shift given by its power of two.
EncodeSextet(bytes, power) == ENCODE_TABLE[((bytes \div power) % 64) + 1]

\* The four output bytes of base64_encode for the input bytes from place i on.
EncodeGroup(input, i) ==
  IF i + 1 > Len(input)
  THEN <<EncodeSextet(input[i] * 65536, 262144),
         EncodeSextet(input[i] * 65536, 4096), Pad, Pad>>
  ELSE IF i + 2 > Len(input)
  THEN <<EncodeSextet(input[i] * 65536 + input[i + 1] * 256, 262144),
         EncodeSextet(input[i] * 65536 + input[i + 1] * 256, 4096),
         EncodeSextet(input[i] * 65536 + input[i + 1] * 256, 64), Pad>>
  ELSE <<EncodeSextet(input[i] * 65536 + input[i + 1] * 256 + input[i + 2], 262144),
         EncodeSextet(input[i] * 65536 + input[i + 1] * 256 + input[i + 2], 4096),
         EncodeSextet(input[i] * 65536 + input[i + 1] * 256 + input[i + 2], 64),
         EncodeSextet(input[i] * 65536 + input[i + 1] * 256 + input[i + 2], 1)>>

\* The loop of base64_encode, from place i on.
RECURSIVE EncodeFrom(_, _)
EncodeFrom(input, i) ==
  IF i > Len(input) THEN <<>>
  ELSE EncodeGroup(input, i) \o EncodeFrom(input, i + 3)

\* The bytes base64_encode needs for an input of n bytes.
EncodedLength(n) == 4 * (n \div 3 + (IF n % 3 # 0 THEN 1 ELSE 0))

\* A mutant of base64_encode: the bytes behind the last whole group of
\* three are left out.
base64_encode_whole(input, buffer) ==
  B64Result(STATUS_OK,
            Base64Buffer(EncodeFrom(SubSeq(input, 1, 3 * (Len(input) \div 3)), 1),
                         4 * (Len(input) \div 3),
                         IF buffer.allocd < 4 * (Len(input) \div 3)
                         THEN 4 * (Len(input) \div 3) ELSE buffer.allocd))

\* base64_encode into buffer.
base64_encode(input, buffer) ==
  B64Result(STATUS_OK,
            Base64Buffer(EncodeFrom(input, 1), EncodedLength(Len(input)),
                         IF buffer.allocd < EncodedLength(Len(input))
                         THEN EncodedLength(Len(input)) ELSE buffer.allocd))

\* The group of four input bytes from place i on makes base64_decode return
\* STATUS_BAD in its inner loop: a byte of 128 or more, a pad that is not
\* one of the last two bytes of the input, or a byte outside the alphabet.
GroupRefused(input, i) ==
  \E j \in i..(i + 3) :
    \/ input[j] >= 128
    \/ input[j] = Pad /\ j < Len(input) - 1
    \/ input[j] # Pad /\ DECODE_TABLE(input[j]) = UINT8_MAX

\* The 24 bits of the group: a pad shifts in six zero bits.
SextetOf(c) == IF c = Pad THEN 0 ELSE DECODE_TABLE(c)

GroupBits(input, i) ==
  SextetOf(input[i]) * 262144 + SextetOf(input[i + 1]) * 4096
    + SextetOf(input[i + 2]) * 64 + SextetOf(input[i + 3])

\* The loop of base64_decode, from place i on; padding[1] and padding[0]
\* are set by the pads at the last two places.
RECURSIVE DecodeFrom(_, _, _)
DecodeFrom(input, i, res) ==
  IF i > Len(input) THEN res
  ELSE IF GroupRefused(input, i) THEN B64Result(STATUS_BAD, res.buffer)
  ELSE IF i + 3 = Len(input) /\ input[i + 2] = Pad
  THEN IF input[i + 3] # Pad THEN B64Result(STATUS_BAD, res.buffer)
       ELSE DecodeFrom(input, i + 4,
              B64Result(STATUS_OK,
                [res.buffer EXCEPT
                   !.data = @ \o <<(GroupBits(input, i) \div 65536) % 256>>,
                   !.used = @ - 2]))
  ELSE IF i + 3 = Len(input) /\ input[i + 3] = Pad
  THEN DecodeFrom(input, i + 4,
         B64Result(STATUS_OK,
           [res.buffer EXCEPT
              !.data = @ \o <<(GroupBits(input, i) \div 65536) % 256,
                              (GroupBits(input, i) \div 256) % 256>>,
              !.used = @ - 1]))
  ELSE DecodeFrom(input, i + 4,
         B64Result(STATUS_OK,
           [res.buffer EXCEPT
              !.data = @ \o <<(GroupBits(input, i) \div 65536) % 256,
                              (GroupBits(input, i) \div 256) % 256,
                              GroupBits(input, i) % 256>>]))

\* base64_decode into buffer.
base64_decode(input, buffer) ==
  IF Len(input) % 4 # 0 THEN B64Result(STATUS_BAD, buffer)
  ELSE DecodeFrom(input, 1,
         B64Result(STATUS_OK,
                   Base64Buffer(<<>>, 3 * (Len(input) \div 4),
                                IF buffer.allocd < 3 * (Len(input) \div 4)
                                THEN 3 * (Len(input) \div 4) ELSE buffer.allocd)))

\* The byte strings that are encoded: up to MaxB64Len bytes, each with all
\* bits clear, mixed ("M"), the top bit only, or all bits set.
B64Bytes == {0, 77, 128, 255}
B64Inputs == UNION {[1..n -> B64Bytes] : n \in 0..MaxB64Len}

B64Before ==
  /\ fn_arg \in B64Inputs
  /\ fn_done = FALSE
  /\ fn_ret = [encoded |-> B64Result(STATUS_OK, ZeroBuffer),
               decoded |-> B64Result(STATUS_OK, ZeroBuffer)]

\* The bytes a buffer holds.
Used(buffer) == SubSeq(buffer.data, 1, buffer.used)

\* The input is encoded, and what base64_encode wrote is decoded.
EncodeDecode ==
  /\ ~fn_done
  /\ fn_done' = TRUE
  /\ fn_ret' = [encoded |-> base64_encode(fn_arg, ZeroBuffer),
                decoded |-> base64_decode(Used(base64_encode(fn_arg, ZeroBuffer).buffer),
                                          ZeroBuffer)]
  /\ UNCHANGED fn_arg

\* No function is being called on its own.
InitFn ==
  /\ fn_arg = <<>>
  /\ fn_done = FALSE
  /\ fn_ret = <<>>

\* The library functions at rest, in the specifications of Parts I and II.
InitLib == InitPool /\ InitHeaders /\ InitFn

\* ======================================================================
\* The specifications
\* ======================================================================
vars == <<psvars, histvars, wsvars, libvars>>

Init == InitPS /\ InitHist /\ InitWS /\ InitLib

\* A handler of the fan-out side runs; nothing is recorded and the frame
\* reader stays as it is.
Core(A) == A /\ UNCHANGED <<histvars, wsvars, libvars>>

Next ==
  \/ \E ws \in Sockets : Core(client_connection_create(ws))
  \/ \E ws \in Sockets, channel \in Channels : Core(ClientSub(ws, channel))
  \/ \E ws \in Sockets, channel \in Channels : Core(ClientUnsub(ws, channel))
  \/ \E channel \in Channels, message \in Payloads : Core(ClientPub(channel, message))
  \/ \E ws \in Sockets : Core(client_connection_destroy(ws))
  \/ \E ctx \in {"pub", "sub"}, ok \in BOOLEAN : Core(on_connect(ctx, ok))
  \/ \E ctx \in {"pub", "sub"} : Core(on_disconnect(ctx))
  \/ Core(RedisServe)
  \/ Core(RedisPublish)
  \/ \E abort \in BOOLEAN : Core(on_subscribed_reply(abort))

\* Every behaviour of the fan-out side of the gateway.
Spec == Init /\ [][Next]_vars

\* A handler of the fan-out side runs and is recorded, MaxSteps times at most.
Hist(A) ==
  /\ steps < MaxSteps
  /\ A
  /\ steps' = steps + 1
  /\ UNCHANGED <<wsvars, libvars>>

NextH ==
  \/ \E ws \in Sockets :
       Hist(client_connection_create(ws) /\ HistOther("create_client"))
  \/ \E ws \in Sockets, channel \in Channels : Hist(HistSub(ws, channel))
  \/ \E ws \in Sockets, channel \in Channels : Hist(HistUnsub(ws, channel))
  \/ \E channel \in Channels, message \in Payloads : Hist(HistPub(channel, message))
  \/ \E ws \in Sockets : Hist(HistDestroy(ws))
  \/ \E ctx \in {"pub", "sub"}, ok \in BOOLEAN :
       Hist(on_connect(ctx, ok) /\ HistOther("on_connect"))
  \/ \E ctx \in {"pub", "sub"} : Hist(on_disconnect(ctx) /\ HistOther("on_disconnect"))
  \/ Hist(RedisServe /\ HistOther("redis_serve"))
  \/ Hist(RedisPublish /\ HistOther("redis_publish"))
  \/ \E abort \in BOOLEAN : Hist(HistReply(abort))

\* The fan-out behaviours of at most MaxSteps handler runs, with their history.
SpecHist == Init /\ [][NextH]_vars

\* A step of the read path; the fan-out side stays as it is.
Reader(A) == A /\ UNCHANGED <<psvars, histvars, libvars>>

NextW ==
  \/ \E n \in MsgLens, binary \in BOOLEAN, split \in Splits :
       Reader(ClientSend(n, binary, split))
  \/ \E k \in ChunkSizes, ndebug \in BOOLEAN : Reader(BuffereventRead(k, ndebug))

\* One upgraded connection reading what its client writes.
SpecWS == Init /\ [][NextW]_vars

NextF ==
  \/ \E f \in FrameKinds : Reader(ClientFrame(f))
  \/ \E k \in ChunkSizes, ndebug \in BOOLEAN : Reader(BuffereventRead(k, ndebug))

\* One upgraded connection reading the frames its client writes.
SpecFrames == Init /\ [][NextF]_vars

InitHS == InitPS /\ InitHist /\ InitConn /\ InitLib

NextHS ==
  \/ /\ request = <<>>
     /\ \E shape \in RequestShapes, lower \in BOOLEAN, version \in Versions,
           host \in HostValues, upgrade \in UpgradeValues,
           connection \in ConnectionValues, origin \in OriginValues,
           wsversion \in WsVersionValues, key \in KeyValues,
           cookie \in CookieValues :
          Reader(ClientRequest(MakeRequest(shape, lower, version, host,
                                           upgrade, connection, origin,
                                           wsversion, key, cookie)))
  \/ \E k \in ChunkSizes, ndebug \in BOOLEAN : Reader(BuffereventRead(k, ndebug))
  \/ Reader(on_timeout_sendping)
  \/ Reader(on_write)
  \/ \E eof \in BOOLEAN : Reader(client_connection_onevent(eof))

\* One accepted connection from its HTTP request to its teardown.
SpecHS == InitHS /\ [][NextHS]_vars

\* The requests and the frames of a client that asks for the upgrade, once
\* with and once without an Origin header, and then talks: a PING and a
\* CLOSE frame with a status code.
ConnRequests ==
  {SampleRequest,
   MakeRequest("whole", FALSE, <<1, 1>>, "example.com", "websocket", "Upgrade",
               "", "13", "AQIDBAUGBwgJCgsMDQ4PEA==", "")}

ConnFrames ==
  {Frame(TRUE, 0, WS_OPCODE_PING, TRUE, 2, 2),
   Frame(TRUE, 0, WS_OPCODE_CONNECTION_CLOSE, TRUE, 2, 2)}

NextC ==
  \/ \E req \in ConnRequests : Reader(ClientRequest(req))
  \/ \E f \in ConnFrames : Reader(ClientFrame(f))
  \/ \E k \in ChunkSizes, ndebug \in BOOLEAN : Reader(BuffereventRead(k, ndebug))
  \/ Reader(on_timeout_sendping)
  \/ Reader(on_write)
  \/ \E eof \in BOOLEAN : Reader(client_connection_onevent(eof))

\* The manager with its Redis connections up or down, and socket MsgSocket
\* accepted and upgraded.
InitMsg ==
  /\ string_pool = [c \in Channels |-> 0]
  /\ channel_buckets = EmptyTable
  /\ websocket_buckets = EmptyTable
  /\ pub_is_connected \in BOOLEAN
  /\ sub_is_connected \in BOOLEAN
  /\ pub_ctx = (IF pub_is_connected THEN "connected" ELSE "closed")
  /\ sub_ctx = (IF sub_is_connected THEN "connected" ELSE "closed")
  /\ sub_cmds = <<>>
  /\ sub_replies = <<>>
  /\ pub_cmds = <<>>
  /\ redis_subs = {}
  /\ clients = {MsgSocket}
  /\ crashed = FALSE
  /\ held = NoChannel
  /\ InitHist
  /\ InitWS
  /\ InitLib

NextM ==
  \/ \E bytes \in MsgTexts, binary \in BOOLEAN, split \in Splits :
       Reader(ClientText(bytes, binary, split))
  \/ \E k \in ChunkSizes, ndebug \in BOOLEAN :
       ReadAndHandle(k, ndebug) /\ UNCHANGED <<histvars, libvars>>

\* One upgraded connection whose messages reach the fan-out manager.
SpecMsg == InitMsg /\ [][NextM]_vars

\* The life of one connection: upgrade, frames both ways, teardown.
SpecConn == InitHS /\ [][NextC]_vars

NextS ==
  \/ \E req \in ConnRequests : Reader(ClientRequest(req))
  \/ \E k \in ChunkSizes, ndebug \in BOOLEAN : Reader(BuffereventRead(k, ndebug))
  \/ Reader(on_timeout_sendping)
  \/ Reader(on_write)
  \/ \E eof \in BOOLEAN : Reader(client_connection_onevent(eof))
  \/ Reader(Shutdown)

\* A connection whose client sends no frames, with a caller of
\* client_connection_shutdown.
SpecShutdown == InitHS /\ [][NextS]_vars

\* A call into the string pool, the gateway and the other libraries at rest.
PoolCall(A) == A /\ UNCHANGED <<psvars, histvars, wsvars, hdrvars, fnvars>>

NextP ==
  \/ \E lookup \in PoolStrings, fresh \in Addrs : PoolCall(PoolGet(lookup, fresh))
  \/ \E ptr \in Addrs : PoolCall(PoolRelease(ptr))

\* Callers of the string pool: gets of three strings, releases of what is held.
SpecPool == Init /\ [][NextP]_vars

\* A call on a request's header list.
HeaderCall(A) == A /\ UNCHANGED <<psvars, histvars, wsvars, poolvars, fnvars>>

NextA ==
  \E name \in HeaderNames, value \in HeaderValues : HeaderCall(HeaderAdd(name, value))

\* A request that is given headers, one at a time.
SpecHeaders == Init /\ [][NextA]_vars

\* The gateway and the two stateful libraries at rest.
InitRest == InitPS /\ InitHist /\ InitWS /\ InitPool /\ InitHeaders

\* A call of a parsing function.
FnCall(A) == A /\ UNCHANGED <<psvars, histvars, wsvars, poolvars, hdrvars>>

InitU32 ==
  /\ InitRest
  /\ U32Before

NextU == FnCall(ConsumeU32)

\* lexer_consume_uint32 called on a run of digits.
SpecU32 == InitU32 /\ [][NextU]_vars

InitLine ==
  /\ InitRest
  /\ LineBefore

NextL == \E skips \in Skips : FnCall(ParseLine(skips))

\* parse_http_line_request called on a request line.
SpecLine == InitLine /\ [][NextL]_vars

InitB64 ==
  /\ InitRest
  /\ B64Before

NextB == FnCall(EncodeDecode)

\* base64_encode and then base64_decode called on a byte string.
SpecB64 == InitB64 /\ [][NextB]_vars

\* ======================================================================
\* Properties of the fan-out manager
\* ======================================================================
\* websocket ws is in the chain of channel c / c is in the chain of ws.
InChannelTable(cb, c, ws) == InChain(ChainOf(cb, c), ws)

InSocketTable(wb, ws, c) == InChain(ChainOf(wb, ws), c)

\* The pairs (channel, websocket) a table holds.
ChannelPairs(cb) ==
  {p \in Channels \X Sockets : InChannelTable(cb, p[1], p[2])}

SocketPairs(wb) ==
  {p \in Channels \X Sockets : InSocketTable(wb, p[2], p[1])}

\* The UNSUBSCRIBE commands for channel c among cmds.
Unsubscribes(cmds, c) ==
  SelectSeq(cmds, LAMBDA x : x.cmd = "UNSUBSCRIBE" /\ x.channel = c)

\* ---------------------------------------------------------------- C1
\* C1: in every state the program reaches (so after every subscribe,
\* unsubscribe, unsubscribe_all, processed reply and teardown) channel C is
\* in socket S's chain of websocket_buckets if and only if S is in C's chain
\* of channel_buckets.
C1_TablesConsistent ==
  \A c \in Channels, ws \in Sockets :
    InSocketTable(websocket_buckets, ws, c) <=> InChannelTable(channel_buckets, c, ws)

\* Both sockets share a channel, one of them has left the other channel
\* through an unsubscribe whose UNSUBSCRIBE is on its way, and a teardown
\* would now cascade.
C1_Witness ==
  /\ ChannelPairs(channel_buckets) = {<<"a", 1>>, <<"a", 2>>}
  /\ Len(Unsubscribes(sub_cmds, "/")) = 1
  /\ clients = {1, 2}

\* ---------------------------------------------------------------- C2
\* C2: for every channel C and socket S, the subscribe(C, S) calls made since
\* the pair's last unsubscribe (or S's creation) have issued at most one
\* SUBSCRIBE C for S, and each table holds at most one (C, S) entry, whether
\* or not the first reply was processed before the second call.
C2_RepeatedSubscribeOnce ==
  \A c \in Channels, ws \in Sockets :
    /\ nsub[ws][c] <= 1
    /\ Count(ChainOf(channel_buckets, c), ws) <= 1
    /\ Count(ChainOf(websocket_buckets, ws), c) <= 1

\* ---------------------------------------------------------------- C3
\* C3: when the connection owning socket S is destroyed while S has committed
\* subscriptions, the step leaves no entry referring to S in either table
\* and issues an UNSUBSCRIBE for every channel whose only subscriber was S.
C3_TeardownRemovesSocket ==
  [][\A ws \in Sockets :
       (client_connection_destroy(ws) /\ ws \in DOMAIN websocket_buckets)
         => /\ ws \notin DOMAIN websocket_buckets'
            /\ \A c \in Channels :
                 /\ ~InChannelTable(channel_buckets', c, ws)
                 /\ ~InSocketTable(websocket_buckets', ws, c)
                 /\ ChannelPairs(channel_buckets) \cap ({c} \X Sockets) = {<<c, ws>>}
                      => Len(Unsubscribes(
                               pubsub_manager_unsubscribe_all(Mgr, sub_is_connected,
                                                              ws).cmds, c)) >= 1]_vars

\* ---------------------------------------------------------------- C4
\* C4: an unsubscribe(C, S) that runs (the subscription connection is up)
\* removes exactly the pair (C, S) from both tables, and issues UNSUBSCRIBE C
\* if and only if S was the last socket subscribed to C: then exactly one,
\* and C's key chain is gone.
C4_UnsubscribeExactPair ==
  [][\A ws \in Sockets, c \in Channels :
       (ClientUnsub(ws, c) /\ sub_is_connected)
         => LET m1 == pubsub_manager_unsubscribe(Mgr, sub_is_connected, c, ws)
                last == ChannelPairs(channel_buckets) \cap ({c} \X Sockets)
                          = {<<c, ws>>}
            IN /\ ChannelPairs(channel_buckets')
                    = ChannelPairs(channel_buckets) \ {<<c, ws>>}
               /\ SocketPairs(websocket_buckets')
                    = SocketPairs(websocket_buckets) \ {<<c, ws>>}
               /\ Len(Unsubscribes(m1.cmds, c)) = (IF last THEN 1 ELSE 0)
               /\ last => c \notin DOMAIN channel_buckets']_vars

\* ---------------------------------------------------------------- C5
\* The next reply is the "subscribe" reply of the SUBSCRIBE c issued for ws.
SubscribeReplyIsNext(c, ws) ==
  /\ sub_replies # <<>>
  /\ Head(sub_replies).type = "subscribe"
  /\ Head(sub_replies).channel = c
  /\ Head(sub_replies).ws = ws

\* C5: a subscribe(C, S) call leaves channel_buckets and websocket_buckets as
\* they are, and a step that puts the pair (C, S) into either table is the
\* processing of the "subscribe" reply to a SUBSCRIBE C issued for S.
C5_InsertOnlyOnReply ==
  [][/\ \A ws \in Sockets, c \in Channels :
          ClientSub(ws, c) => UNCHANGED <<channel_buckets, websocket_buckets>>
     /\ \A ws \in Sockets, c \in Channels :
          (\/ Count(ChainOf(channel_buckets', c), ws)
                > Count(ChainOf(channel_buckets, c), ws)
           \/ Count(ChainOf(websocket_buckets', ws), c)
                > Count(ChainOf(websocket_buckets, ws), c))
            => /\ SubscribeReplyIsNext(c, ws)
               /\ sub_replies' = Tail(sub_replies)]_vars

\* A SUBSCRIBE for (a, 1) was issued and answered, the reply is still to be
\* processed, and neither table has the pair.
C5_Witness ==
  /\ SubscribeReplyIsNext("a", 1)
  /\ ~InChannelTable(channel_buckets, "a", 1)
  /\ ~InSocketTable(websocket_buckets, 1, "a")

\* ---------------------------------------------------------------- C6
\* The frames of a call that go to websocket ws.
FramesTo(frames, ws) == SelectSeq(frames, LAMBDA f : f.ws = ws)

\* C6: processing a "message" reply for channel C sends exactly one text
\* frame, carrying the envelope with key C and the payload as data, to each
\* socket subscribed to C at that moment, and no frame to any other socket.
C6_MessageFanOut ==
  [][\A abort \in BOOLEAN :
       (on_subscribed_reply(abort) /\ Head(sub_replies).type = "message")
         => LET r == Head(sub_replies)
                frames == on_subscribed_reply_message(Mgr, r.channel, r.data).frames
            IN /\ \A ws \in Sockets :
                    Len(FramesTo(frames, ws))
                      = (IF InChannelTable(channel_buckets, r.channel, ws)
                         THEN 1 ELSE 0)
               /\ \A i \in 1..Len(frames) :
                    frames[i].payload = Envelope(r.channel, r.data)]_vars

\* ---------------------------------------------------------------- C7
\* C7: while the subscription connection is down, a subscribe and an
\* unsubscribe return STATUS_DISCONNECTED, hand no command to hiredis and leave
\* both tables and the string pool's reference counts as they are.
C7_DisconnectedNoEffect ==
  [][\A ws \in Sockets, c \in Channels :
       ~sub_is_connected =>
         /\ ClientSub(ws, c) =>
              /\ pubsub_manager_subscribe(Mgr, sub_is_connected, c, ws).status
                   = STATUS_DISCONNECTED
              /\ UNCHANGED <<channel_buckets, websocket_buckets, string_pool,
                             sub_cmds, pub_cmds>>
         /\ ClientUnsub(ws, c) =>
              /\ pubsub_manager_unsubscribe(Mgr, sub_is_connected, c, ws).status
                   = STATUS_DISCONNECTED
              /\ UNCHANGED <<channel_buckets, websocket_buckets, string_pool,
                             sub_cmds, pub_cmds>>]_vars

\* An unsubscribe has just returned STATUS_DISCONNECTED while the tables held
\* subscriptions it could have removed.
C7_Witness ==
  /\ last_op = Op("unsubscribe", STATUS_DISCONNECTED)
  /\ ~sub_is_connected
  /\ ChannelPairs(channel_buckets) # {}
  /\ SocketPairs(websocket_buckets) # {}

\* ---------------------------------------------------------------- C8
\* C8: a publish leaves channel_buckets, websocket_buckets and the string
\* pool as they are whatever it returns, and while the publish connection is
\* down it returns STATUS_DISCONNECTED and hands no PUBLISH to hiredis.
C8_PublishNoLocalEffect ==
  [][\A c \in Channels, message \in Payloads :
       ClientPub(c, message) =>
         /\ UNCHANGED <<channel_buckets, websocket_buckets, string_pool>>
         /\ ~pub_is_connected =>
              /\ pubsub_manager_publish_n(Mgr, pub_is_connected, c, message).status
                   = STATUS_DISCONNECTED
              /\ UNCHANGED <<pub_cmds, sub_cmds>>]_vars

\* A publish has just returned STATUS_DISCONNECTED while subscriptions exist.
C8_Witness ==
  /\ last_op = Op("publish", STATUS_DISCONNECTED)
  /\ ~pub_is_connected
  /\ ChannelPairs(channel_buckets) # {}
  /\ pub_cmds = <<>>

\* ---------------------------------------------------------------- C9
\* The nodes of websocket_buckets whose value is channel c, over the sockets S.
RECURSIVE SocketNodes(_, _, _)
SocketNodes(wb, c, S) ==
  IF S = {} THEN 0
  ELSE LET ws == CHOOSE x \in S : TRUE
       IN Count(ChainOf(wb, ws), c) + SocketNodes(wb, c, S \ {ws})

\* The canonicalizations (string_pool_get without its release) outstanding:
\* between handlers only the one an aborted call was holding.
Outstanding(c) == IF held = c THEN 1 ELSE 0

\* C9 as the specification states it: the pool's reference count of each
\* channel is twice the number of live (channel, socket) subscriptions to it,
\* plus the outstanding canonicalizations.
C9_RefcountTwicePerSubscription ==
  \A c \in Channels :
    string_pool[c]
      = 2 * Cardinality({ws \in Sockets : InChannelTable(channel_buckets, c, ws)})
        + Outstanding(c)

\* C9: the pool's reference count of each channel is one for the channel's
\* key chain in channel_buckets (if it has one), plus one for every node of
\* websocket_buckets holding the channel, plus the outstanding
\* canonicalizations.
C9_RefcountPerReference ==
  \A c \in Channels :
    string_pool[c]
      = (IF c \in DOMAIN channel_buckets THEN 1 ELSE 0)
        + SocketNodes(websocket_buckets, c, Sockets)
        + Outstanding(c)

\* Two distinct sockets are subscribed to one channel, each once: three
\* references, not four.
C9_Witness ==
  /\ channel_buckets = [c \in {"a"} |-> <<2, 1>>]
  /\ websocket_buckets = [ws \in {1, 2} |-> <<"a">>]
  /\ string_pool["a"] = 3

\* ---------------------------------------------------------------- C22
\* The websockets the frames of a call go to, in the order they are sent.
FrameSockets(frames) == [i \in 1..Len(frames) |-> frames[i].ws]

\* Chain after is chain before with some nodes unlinked: the nodes that stay
\* keep their order.
RECURSIVE OrderKept(_, _)
OrderKept(before, after) ==
  IF after = <<>> THEN TRUE
  ELSE IF before = <<>> THEN FALSE
  ELSE IF Head(before) = Head(after) THEN OrderKept(Tail(before), Tail(after))
  ELSE OrderKept(Tail(before), after)

\* What C22 says of a step, given where a committed subscription is linked
\* into the channel's chain (Link(chain, ws) is the chain with ws added): a
\* "message" reply is fanned out in the order of the channel's chain, a
\* "subscribe" reply links its websocket into the chain that way, and no
\* other step reorders a chain.
FanOutFollowsChain(at_head) ==
  \A c \in Channels :
    LET before == ChainOf(channel_buckets, c)
        after == ChainOf(channel_buckets', c)
    IN IF \E abort \in BOOLEAN : on_subscribed_reply(abort)
       THEN LET r == Head(sub_replies) IN
            /\ (r.type = "message" /\ r.channel = c) =>
                 FrameSockets(on_subscribed_reply_message(Mgr, c, r.data).frames)
                   = before
            /\ (r.type = "subscribe" /\ r.channel = c) =>
                 after = (IF at_head THEN PushFront(before, r.ws)
                          ELSE Append(before, r.ws))
            /\ ~(r.type = "subscribe" /\ r.channel = c) => after = before
       ELSE OrderKept(before, after)

\* C22 as the specification states it: the channel's chain is in the order in
\* which the subscriptions were committed, earliest first, and the frames of
\* one Redis message are sent in that order.
C22_FanOutEarliestFirst ==
  [][FanOutFollowsChain(FALSE)]_vars

\* C22: the frames of one Redis message are sent in the order of the
\* channel's chain, and a committed subscription is linked in at the head of
\* the chain: the most recently committed subscriber is served first, the
\* earliest last.
C22_FanOutLatestFirst ==
  [][FanOutFollowsChain(TRUE)]_vars

\* Socket 1 then socket 2 subscribed to "a", and a message for "a" is the
\* next reply: its frames go to 2, then to 1.
C22_Witness ==
  /\ channel_buckets = [c \in {"a"} |-> <<2, 1>>]
  /\ sub_replies # <<>>
  /\ Head(sub_replies).type = "message"
  /\ Head(sub_replies).channel = "a"
  /\ FrameSockets(on_subscribed_reply_message(Mgr, "a", <<>>).frames) = <<2, 1>>

\* ---------------------------------------------------------------- C30
\* The socket handles the two tables store.
StoredSockets ==
  {ws \in Sockets : \E c \in Channels : InChannelTable(channel_buckets, c, ws)}
    \cup (DOMAIN websocket_buckets)

\* C30: between any two callbacks, every socket handle stored in
\* channel_buckets or websocket_buckets is the websocket of a connection that
\* is in the registry.
C30_StoredSocketsRegistered ==
  ~crashed => StoredSockets \subseteq clients

\* ======================================================================
\* Properties of the frame reader
\* ======================================================================
\* ---------------------------------------------------------------- C10
\* C10: the reader neither aborts nor closes on the messages a client
\* writes; the calls of the message callback are, in order, the messages
\* written (same bytes, same text/binary type), each at most once; and once
\* every byte written has gone through the read path, each exactly once.
C10_FrameRoundTrip ==
  /\ ~ws_aborted
  /\ websocket.in_state # "WS_CLOSED"
  /\ Len(websocket.cb_calls) <= Len(sent)
  /\ websocket.cb_calls = SubSeq(sent, 1, Len(websocket.cb_calls))
  /\ (wire = <<>> /\ bev_input = <<>>) => websocket.cb_calls = sent

\* ---------------------------------------------------------------- C11
\* The frame a client wrote is well formed: no RSV bit, masked, and the
\* length it declares is the length of its payload.
PlainFrame(f) == f.rsv = 0 /\ f.masked /\ f.declared = Len(f.payload)

\* fs begins a fragmented message: a text or binary frame without FIN, then
\* continuation frames without FIN.
IsFragmentPrefix(fs) ==
  /\ fs # <<>>
  /\ fs[1].opcode \in {WS_OPCODE_TEXT_FRAME, WS_OPCODE_BINARY_FRAME}
  /\ \A i \in 1..Len(fs) : PlainFrame(fs[i]) /\ ~fs[i].fin
  /\ \A i \in 2..Len(fs) : fs[i].opcode = WS_OPCODE_CONTINUATION_FRAME

\* fs is one fragmented message: a beginning as above and one continuation
\* frame with FIN.
IsFragmentedMessage(fs) ==
  /\ Len(fs) >= 2
  /\ IsFragmentPrefix(SubSeq(fs, 1, Len(fs) - 1))
  /\ PlainFrame(fs[Len(fs)])
  /\ fs[Len(fs)].fin
  /\ fs[Len(fs)].opcode = WS_OPCODE_CONTINUATION_FRAME

\* The payloads of fs, one after the other.
RECURSIVE ConcatPayloads(_)
ConcatPayloads(fs) ==
  IF fs = <<>> THEN <<>> ELSE fs[1].payload \o ConcatPayloads(Tail(fs))

\* Every byte the client has written has been handed to the reader.
AllRead == wire = <<>> /\ bev_input = <<>>

\* C11: while a client has written only the non-final fragments of a
\* message, the message callback has not been called; when it has written
\* one fragmented message (first frame text or binary without FIN, then
\* continuation frames, the last with FIN), the callback is called at most
\* once, and once all bytes are read exactly once, with the concatenation of
\* the fragment payloads and the type of the first frame, and the message
\* buffer is empty afterwards.
C11_FragmentedMessageDelivered ==
  /\ IsFragmentPrefix(written) =>
       ~ws_aborted /\ websocket.cb_calls = <<>>
  /\ IsFragmentedMessage(written) =>
       LET message == [binary |-> written[1].opcode = WS_OPCODE_BINARY_FRAME,
                       bytes |-> ConcatPayloads(written)]
       IN /\ ~ws_aborted
          /\ websocket.cb_calls \in {<<>>, <<message>>}
          /\ AllRead => /\ websocket.cb_calls = <<message>>
                        /\ websocket.in_message_buffer = <<>>
                        /\ websocket.in_state = "WS_NEEDS_INITIAL"

\* ---------------------------------------------------------------- C12
\* The frame the client wrote last.
LastFrame == written[Len(written)]

\* The client wrote its last frame when the reader was between two frames,
\* and the frame is well formed.
LastFrameAtBoundary ==
  written # <<>> /\ LastFrame.at_boundary /\ PlainFrame(LastFrame)

\* C12: once a text or binary frame that arrived in the middle of a
\* fragmented message (message_is_continuing true) has been read, the engine
\* is Closed and the message callback has not been called for it.
C12_DataFrameWhileContinuingCloses ==
  ( /\ LastFrameAtBoundary
    /\ LastFrame.in_message_is_continuing
    /\ LastFrame.opcode \in {WS_OPCODE_TEXT_FRAME, WS_OPCODE_BINARY_FRAME}
    /\ AllRead )
  => /\ ~ws_aborted
     /\ websocket.in_state = "WS_CLOSED"
     /\ websocket.cb_calls = LastFrame.cb_calls

\* ---------------------------------------------------------------- C13
\* C13: once a continuation frame that arrived outside a fragmented message
\* (message_is_continuing false) has been read, the engine is Closed, the
\* message callback has not been called and the message buffer is as it was.
C13_StrayContinuationCloses ==
  ( /\ LastFrameAtBoundary
    /\ ~LastFrame.in_message_is_continuing
    /\ LastFrame.opcode = WS_OPCODE_CONTINUATION_FRAME
    /\ AllRead )
  => /\ ~ws_aborted
     /\ websocket.in_state = "WS_CLOSED"
     /\ websocket.cb_calls = LastFrame.cb_calls
     /\ websocket.in_message_buffer = LastFrame.in_message_buffer

\* ---------------------------------------------------------------- C14
\* The bytes of the last frame that have been handed to the reader, when
\* the frame was written with the reader between two frames.
Handed == LastFrame.nbytes - Len(wire) - Len(bev_input)

\* The header of the last frame is one the reader must refuse: an RSV bit
\* set, no mask, or a declared payload length above 16 MiB.
RefusedHeader ==
  \/ LastFrame.rsv # 0
  \/ ~LastFrame.masked
  \/ LastFrame.declared > MAX_PAYLOAD_LENGTH

\* The bytes the reader needs to see that: the two header bytes, and for the
\* length also the eight bytes of the extended length.
RefusedHeaderLength ==
  IF LastFrame.rsv # 0 \/ ~LastFrame.masked THEN 2 ELSE 10

\* C14: a frame header with an RSV bit set, with MASK = 0 or declaring more
\* than 16 MiB closes the engine as soon as the reader has the bytes that
\* show it; no byte behind them is consumed and the message callback is not
\* called.
C14_BadHeaderCloses ==
  ( /\ written # <<>>
    /\ LastFrame.at_boundary
    /\ RefusedHeader )
  => /\ ~ws_aborted
     /\ websocket.cb_calls = LastFrame.cb_calls
     /\ Handed <= RefusedHeaderLength
     /\ (Handed = RefusedHeaderLength) <=> (websocket.in_state = "WS_CLOSED")

C14_Witness ==
  /\ written # <<>>
  /\ LastFrame.at_boundary
  /\ LastFrame.declared > MAX_PAYLOAD_LENGTH
  /\ websocket.in_state = "WS_CLOSED"
  /\ Handed = 10
  /\ Len(wire) = 5

\* ---------------------------------------------------------------- C15
\* The PONG that answers the last frame.
PongForLastFrame ==
  FrameWrite(<<128 + WS_OPCODE_PONG, Len(LastFrame.payload)>>
               \o LastFrame.payload)

\* C15: a PING frame is answered with exactly one PONG frame of the same
\* payload, written once the PING has been read, after which the reader
\* waits for the next frame header; the message buffer, message_is_continuing
\* and message_is_binary stay as the PING found them.
C15_PingAnsweredByPong ==
  ( /\ LastFrameAtBoundary
    /\ LastFrame.opcode = WS_OPCODE_PING )
  => /\ ~ws_aborted
     /\ websocket.output \in {LastFrame.output,
                              Append(LastFrame.output, PongForLastFrame)}
     /\ websocket.in_message_buffer = LastFrame.in_message_buffer
     /\ websocket.in_message_is_continuing = LastFrame.in_message_is_continuing
     /\ websocket.in_message_is_binary = LastFrame.in_message_is_binary
     /\ websocket.cb_calls = LastFrame.cb_calls
     /\ AllRead => /\ websocket.output = Append(LastFrame.output, PongForLastFrame)
                   /\ websocket.in_state = "WS_NEEDS_INITIAL"

\* ---------------------------------------------------------------- C20
\* C20: a connection that is in the registry never has a Closed engine: the
\* read callback that closes the engine destroys the connection before it
\* returns.
C20_ClosedEngineIsDestroyed ==
  client.registered => websocket.in_state # "WS_CLOSED"

C20_Witness ==
  /\ written # <<>>
  /\ LastFrame.opcode = WS_OPCODE_CONNECTION_CLOSE
  /\ websocket.in_state = "WS_CLOSED"
  /\ ~client.registered
  /\ client.fd = "closed"

\* ======================================================================
\* Properties of the opening handshake
\* ======================================================================
\* ---------------------------------------------------------------- C16
\* on_read runs on a connection that is not upgraded yet.
HandshakeStep ==
  /\ websocket.in_state = "WS_NEEDS_HTTP_UPGRADE"
  /\ client.registered
  /\ Len(wire') < Len(wire)

\* What that on_read takes from the bufferevent, and what the parser makes of it.
HandedRequest == bev_input \o SubSeq(wire, 1, Len(wire) - Len(wire'))

ParsedHandedRequest == http_request_parse(http_request_init, HandedRequest)

\* The value of the header of that name in a header list, "" when absent.
HeaderValue(header, name) ==
  IF \E i \in 1..Len(header) : ToLower(header[i].name) = ToLower(name)
  THEN header[CHOOSE i \in 1..Len(header) :
                ToLower(header[i].name) = ToLower(name)].value
  ELSE ""

\* The status the handshake owes to a request: the first failing check.
ExpectedStatus(req) ==
  IF ~(req.version_major = 1 /\ req.version_minor >= 1) THEN 505
  ELSE IF \/ ToLower(HeaderValue(req.header, "Upgrade")) # "websocket"
          \/ ToLower(HeaderValue(req.header, "Connection")) # "upgrade"
  THEN 400
  ELSE IF HeaderValue(req.header, "Origin") = "" THEN 403
  ELSE IF HeaderValue(req.header, "Sec-WebSocket-Version") # "13" THEN 400
  ELSE IF HeaderValue(req.header, "Sec-WebSocket-Key") = "" THEN 400
  ELSE 101

\* The rejection is the one for a wrong Sec-WebSocket-Version.
VersionRejected(req) ==
  /\ ExpectedStatus(req) = 400
  /\ ToLower(HeaderValue(req.header, "Upgrade")) = "websocket"
  /\ ToLower(HeaderValue(req.header, "Connection")) = "upgrade"
  /\ HeaderValue(req.header, "Origin") # ""
  /\ HeaderValue(req.header, "Sec-WebSocket-Version") # "13"

C17_UpgradeIffSwitchingProtocols ==
  [][ HandshakeStep =>
        LET response == client'.response IN
        /\ websocket'.in_state \in {"WS_NEEDS_HTTP_UPGRADE", "WS_NEEDS_INITIAL"}
        /\ (websocket'.in_state = "WS_NEEDS_INITIAL") <=> (response.status_code = 101)
        /\ response.status_code = 101 => websocket'.ping_event
        /\ (ParsedHandedRequest.status = STATUS_OK /\ response.status_code # 101) =>
             /\ websocket'.in_state = "WS_NEEDS_HTTP_UPGRADE"
             /\ HeaderValue(response.header, "Connection") = "Close"
             /\ received' \in {received, Append(received, HttpWrite(response))}
    ]_vars

C17_Witness ==
  /\ websocket.in_state = "WS_NEEDS_INITIAL"
  /\ websocket.ping_event
  /\ websocket.ping_count > 0
  /\ client.response.status_code = 101

\* ---------------------------------------------------------------- C18
\* The connection was torn down because its handshake was rejected.
RejectedAndTornDown ==
  /\ ~client.registered
  /\ client.needs_shutdown
  /\ client.response.status_code \in {400, 403, 505}

\* C18: a connection torn down after a rejected handshake has had its HTTP
\* error response delivered to the client first.
C18_RejectionFlushedBeforeTeardown ==
  RejectedAndTornDown =>
    \E i \in 1..Len(received) : received[i] = HttpWrite(client.response)

\* ---------------------------------------------------------------- C19
\* The request the client wrote is one the parser refuses.
MalformedRequest ==
  /\ request # <<>>
  /\ http_request_parse(http_request_init, request).status # STATUS_OK

\* C19: a connection closed on a malformed HTTP request has answered it with
\* an HTTP 4xx or 5xx response first.
C19_MalformedRequestAnswered ==
  (MalformedRequest /\ ~client.registered /\ client.needs_shutdown) =>
    \E i \in 1..Len(received) :
      received[i].kind = "http" /\ received[i].status_code >= 400

\* ======================================================================
\* Properties of the life of a connection
\* ======================================================================
\* ---------------------------------------------------------------- C21
\* The socket of the connection has been shut down by client_connection_shutdown.
ShutdownPerformed == Count(client.io, "shutdown") > 0

\* C21: once client_connection_shutdown has shut a connection down, a
\* further call of it disables nothing and shuts nothing down.
C21_ShutdownIdempotent ==
  [][(Shutdown /\ ShutdownPerformed) => client'.io = client.io]_vars

\* ---------------------------------------------------------------- C24
\* The PING frames among the frames of out, in their order.
PingFrames(out) ==
  SelectSeq(out, LAMBDA x : x.kind = "frame" /\ x.bytes[1] = 128 + WS_OPCODE_PING)

\* The payload of a short unmasked frame.
ShortPayload(x) == SubSeq(x.bytes, 3, Len(x.bytes))

\* The number a run of ASCII digits denotes; -1 for anything else.
RECURSIVE DecimalValue(_)
DecimalValue(digits) ==
  IF digits = <<>> \/ \E i \in 1..Len(digits) : digits[i] \notin 48..57 THEN -1
  ELSE IF Len(digits) = 1 THEN digits[1] - 48
  ELSE 10 * DecimalValue(SubSeq(digits, 1, Len(digits) - 1))
         + (digits[Len(digits)] - 48)

\* The PING frames the connection has written: those the client has and
\* those still in the output buffer.
PingsWritten == PingFrames(received \o websocket.output)

\* The PING payloads so far are decimal numbers, each greater than the one
\* before.
PingsIncrease ==
  \A i \in 1..Len(PingsWritten) :
    /\ DecimalValue(ShortPayload(PingsWritten[i])) >= 0
    /\ i > 1 => DecimalValue(ShortPayload(PingsWritten[i]))
                  > DecimalValue(ShortPayload(PingsWritten[i - 1]))

\* The step puts a PING frame into the output buffer.
PingEmitted ==
  Len(PingFrames(websocket'.output)) > Len(PingFrames(websocket.output))

\* C24: the payloads of the PING frames a connection writes are decimal
\* numbers, each greater than the one before; and a PING frame is only
\* written by the PING event of a registered connection whose handshake was
\* answered with 101 and whose engine is not Closed.
C24_PingCounterIncreases ==
  /\ []PingsIncrease
  /\ [][PingEmitted =>
          /\ on_timeout_sendping
          /\ client.registered
          /\ client.response.status_code = 101
          /\ websocket.in_state \notin {"WS_NEEDS_HTTP_UPGRADE", "WS_CLOSED"}]_vars

C24_Witness ==
  /\ Len(PingFrames(received)) = 2
  /\ ShortPayload(PingFrames(received)[1]) = <<48>>
  /\ ShortPayload(PingFrames(received)[2]) = <<49>>
  /\ websocket.in_state = "WS_CLOSED"

\* ---------------------------------------------------------------- C23
\* A message the gateway has to drop: a binary message, a text that is no
\* JSON value, or a JSON object whose action is none of pub, sub, unsub.
Dropped(msg) ==
  \/ msg.binary
  \/ msg.bytes \notin {JsonSub, JsonNop}
  \/ msg.bytes = JsonNop

\* C23: while every message the client has sent is one the gateway has to
\* drop, no Redis command has been issued, both fan-out tables and the pool
\* are as they were, the connection is open, and once the messages are read
\* the reader waits for the next frame header.
C23_DroppedMessagesNoEffect ==
  (\A i \in 1..Len(sent) : Dropped(sent[i])) =>
    /\ sub_cmds = <<>> /\ pub_cmds = <<>>
    /\ channel_buckets = EmptyTable /\ websocket_buckets = EmptyTable
    /\ string_pool = [c \in Channels |-> 0]
    /\ ~ws_aborted
    /\ client.registered
    /\ MsgSocket \in clients
    /\ (wire = <<>> /\ bev_input = <<>>) => websocket.in_state = "WS_NEEDS_INITIAL"

\* ======================================================================
\* Properties of the library functions
\* ======================================================================
\* A node of the pool holds lookup.
Interned(tbl, lookup) == \E n \in PoolNodes(tbl) : n.str = lookup

\* The pointer of the node that holds lookup.
Canonical(tbl, lookup) == (CHOOSE n \in PoolNodes(tbl) : n.str = lookup).str_addr

\* No two nodes hold the same bytes or have the same address; a node is in
\* the pool exactly while fewer releases than gets of its pointer have been
\* made, and its refcount is their difference.
PoolBooksKept ==
  /\ \A b \in PoolBuckets : \A i, j \in 1..Len(pool_table[b]) :
       i # j => /\ pool_table[b][i].str # pool_table[b][j].str
                /\ pool_table[b][i].str_addr # pool_table[b][j].str_addr
  /\ \A n \in PoolNodes(pool_table) :
       /\ \A o \in PoolNodes(pool_table) : (n.str = o.str \/ n.str_addr = o.str_addr) => n = o
       /\ n.refcount = pool_gets[n.str_addr] - pool_puts[n.str_addr]
       /\ n.refcount = pool_held[n.str_addr]
  /\ \A x \in Addrs : x \in LiveAddrs(pool_table) <=> pool_puts[x] < pool_gets[x]

\* A get of bytes the pool holds returns the pointer of their node and
\* allocates nothing; a get of other bytes allocates one node.
PoolGetStep(lookup) ==
  IF Interned(pool_table, lookup)
  THEN /\ pool_ret' = Canonical(pool_table, lookup)
       /\ LiveAddrs(pool_table') = LiveAddrs(pool_table)
  ELSE /\ pool_ret' \notin LiveAddrs(pool_table)
       /\ LiveAddrs(pool_table') = LiveAddrs(pool_table) \cup {pool_ret'}
       /\ Canonical(pool_table', lookup) = pool_ret'

\* A release unlinks the node exactly when it is the release that brings the
\* releases up to the gets.
PoolReleaseStep(ptr) ==
  /\ pool_ret' = STATUS_OK
  /\ LiveAddrs(pool_table') =
       IF pool_puts'[ptr] = pool_gets'[ptr] THEN LiveAddrs(pool_table) \ {ptr}
       ELSE LiveAddrs(pool_table)

\* ---------------------------------------------------------------- C25
\* C25: while a node of the string pool is live, every get of the same bytes
\* returns the pointer of that node; the node is allocated by the first get
\* and is unlinked and freed by the release that brings the number of
\* releases up to the number of gets, and by no other.
C25_PoolCanonicalPointer ==
  /\ []PoolBooksKept
  /\ [][/\ \A lookup \in PoolStrings, fresh \in Addrs :
             PoolGet(lookup, fresh) => PoolGetStep(lookup)
        /\ \A ptr \in Addrs : PoolRelease(ptr) => PoolReleaseStep(ptr)]_vars

\* "b" was interned behind "a" in the same bucket, was got a second time with
\* the same pointer, and "a" has since been released and freed.
C25_Witness ==
  /\ pool_table[PoolBucket("b")] = <<PoolNode(2, "b", 2)>>
  /\ pool_gets[1] = 1 /\ pool_puts[1] = 1
  /\ pool_ret = STATUS_OK

\* The places of the adds whose name is name, whatever its case.
AddsOf(name) == {i \in 1..Len(http_adds) : EqualNoCase(http_adds[i].name, name)}

\* The last of a non-empty set of places.
LastOf(hits) == CHOOSE i \in hits : \A j \in hits : j <= i

\* The entries of the list whose name is name, whatever its case.
EntriesOf(name) ==
  {i \in 1..Len(http_req.header) : EqualNoCase(http_req.header[i].name, name)}

\* ---------------------------------------------------------------- C26
\* C26: for every header name, in any case variant: the list has one entry
\* of that name if a header of that name (in whatever case) was added and
\* none otherwise; http_request_find_header finds that entry, and its value
\* is the value of the last such add.
C26_HeaderAddReplaces ==
  \A name \in HeaderNames :
    IF AddsOf(name) = {}
    THEN /\ EntriesOf(name) = {}
         /\ ~http_request_find_header(http_req, name).found
    ELSE /\ Cardinality(EntriesOf(name)) = 1
         /\ http_request_find_header(http_req, name).found
         /\ http_request_find_header(http_req, name).value =
              http_adds[LastOf(AddsOf(name))].value
         /\ EqualNoCase(http_request_find_header(http_req, name).name, name)

\* "Host: x" was added, then "HOST: y": one entry, named Host, with value y.
C26_Witness ==
  /\ http_adds = <<[name |-> "Host", value |-> "x"], [name |-> "HOST", value |-> "y"]>>
  /\ http_req.header = <<[name |-> "Host", value |-> "y"]>>
  /\ http_request_find_header(http_req, "host").value = "y"

\* The digits at the front of the input.
RECURSIVE DigitsOf(_)
DigitsOf(lex) ==
  IF lex = <<>> \/ ~isdigit(Head(lex)) THEN <<>>
  ELSE <<Head(lex)>> \o DigitsOf(Tail(lex))

\* The decimal value of a run of digits, as three 16-bit parts <<top, high,
\* low>> (top is what does not fit into 32 bits).
RECURSIVE ValueOf(_)
ValueOf(digits) ==
  IF digits = <<>> THEN <<0, 0, 0>>
  ELSE LET rest == ValueOf(SubSeq(digits, 1, Len(digits) - 1))
           low == 10 * rest[3] + (digits[Len(digits)] - 48)
           high == 10 * rest[2] + low \div Half
       IN <<10 * rest[1] + high \div Half, high % Half, low % Half>>

\* A value cut off at 2^32 - 1.
Saturated(value) ==
  IF value[1] > 0 THEN <<Half - 1, Half - 1>> ELSE <<value[2], value[3]>>

\* ---------------------------------------------------------------- C28
\* C28: lexer_consume_uint32 on a run of digits succeeds and stores the
\* decimal value of the run, or 2^32 - 1 when the value is greater.
C28_ConsumeU32Saturates ==
  fn_done =>
    /\ fn_ret.ok
    /\ fn_ret.number = Saturated(ValueOf(DigitsOf(fn_arg)))

\* The request lines of the grammar whose request-URI is "*".
AsteriskLines ==
  {m \o <<SP, 42, SP>> \o v \o CRLF : m \in MethodBytes, v \in GoodVersions}

\* ---------------------------------------------------------------- C27
\* C27: a request line of the grammar whose request-URI is "*" is parsed
\* with STATUS_OK, and the request has its asterisk flag set.
C27_AsteriskFormParses ==
  (fn_done /\ fn_arg \in AsteriskLines) =>
    /\ fn_ret.status = STATUS_OK
    /\ fn_ret.req.uri_asterisk

\* ---------------------------------------------------------------- C29
\* C29: for every byte string, base64_encode returns STATUS_OK, and
\* base64_decode of what it wrote returns STATUS_OK and leaves the byte
\* string in its buffer: as many bytes, and the same ones.
C29_Base64RoundTrip ==
  fn_done =>
    /\ fn_ret.encoded.status = STATUS_OK
    /\ fn_ret.decoded.status = STATUS_OK
    /\ fn_ret.decoded.buffer.used = Len(fn_arg)
    /\ Len(fn_ret.decoded.buffer.data) = Len(fn_arg)
    /\ fn_ret.decoded.buffer.data = fn_arg

\* The four bytes ff 00 80 4d went to "/wCATQ==" and back.
C29_Witness ==
  /\ fn_done
  /\ fn_arg = <<255, 0, 128, 77>>
  /\ Used(fn_ret.encoded.buffer) = <<47, 119, 67, 65, 84, 81, 61, 61>>
  /\ Used(fn_ret.decoded.buffer) = <<255, 0, 128, 77>>

\* ======================================================================
\* Further properties of the fan-out manager
\* ======================================================================
\* The channels that have a chain with a subscriber in channel_buckets.
ChannelsWithSubscribers ==
  {c \in DOMAIN channel_buckets : channel_buckets[c] # <<>>}

\* The subscription connection is up and nothing is on its way to or from Redis.
Quiescent ==
  /\ ~crashed
  /\ sub_is_connected
  /\ sub_cmds = <<>>
  /\ sub_replies = <<>>

\* ---------------------------------------------------------------- C31
\* C31: whenever the subscription connection is up and no command or reply
\* is in flight, Redis has the connection subscribed to exactly the channels
\* that have a subscriber in channel_buckets.
C31_RedisMatchesBuckets ==
  Quiescent => redis_subs = ChannelsWithSubscribers

\* ---------------------------------------------------------------- C32
\* C32: a socket whose last request for a channel was an accepted unsub (no
\* SUBSCRIBE was issued for the pair since) is not in the channel's chain
\* once the connection is up and every outstanding command and reply has
\* been processed.
C32_UnsubscribedStaysOut ==
  \A s \in Sockets, c \in Channels :
    (Quiescent /\ s \in clients /\ nsub[s][c] = 0)
      => ~InChain(ChainOf(channel_buckets, c), s)

\* ---------------------------------------------------------------- C33
\* C33: the assertion of remove_websocket_from_channel_chain (the channel
\* being removed has a bucket in channel_buckets) holds in every call: in
\* every state the program reaches, no unsub request of a registered socket
\* and no teardown of one makes the removal step abort.
C33_RemovalFindsBucket ==
  ~crashed =>
    \A ws \in clients :
      /\ \A channel \in Channels :
           ~pubsub_manager_unsubscribe(Mgr, sub_is_connected, channel, ws).crashed
      /\ ~pubsub_manager_unsubscribe_all(Mgr, sub_is_connected, ws).crashed

\* ---------------------------------------------------------------- C38
\* The socket has no node for the channel in either table.
NotSubscribed(ws, channel) ==
  /\ ~InChain(ChainOf(websocket_buckets, ws), channel)
  /\ ~InChain(ChainOf(channel_buckets, channel), ws)

\* The call returned STATUS_OK, sent nothing and changed neither table nor any
\* reference count of the pool.
NoEffect(m) ==
  /\ ~m.crashed
  /\ m.status = STATUS_OK
  /\ m.cmds = <<>>
  /\ m.cb = channel_buckets
  /\ m.wb = websocket_buckets
  /\ m.pool = string_pool

\* C38: with the subscription connection up, unsubscribe(C, S) for a socket S
\* that is not subscribed to C returns STATUS_OK, issues no UNSUBSCRIBE and
\* leaves both tables and all pool reference counts as they were.
C38_UnsubscribeOfStrangerNoEffect ==
  (~crashed /\ sub_is_connected) =>
    \A ws \in clients, channel \in Channels :
      NotSubscribed(ws, channel)
        => NoEffect(pubsub_manager_unsubscribe(Mgr, sub_is_connected, channel, ws))

\* ======================================================================
\* Further properties of the frame reader
\* ======================================================================
\* Frames whose payload fills on_read's buffer exactly, or is one byte longer.
LargeFrames ==
  {Frame(TRUE, 0, WS_OPCODE_BINARY_FRAME, TRUE, n, n) :
     n \in {ReadBufferSize, ReadBufferSize + 1}}

\* What one read(2) brings when the client writes such frames.
LargeChunks == {ReadBufferSize, 2 * ReadBufferSize}

NextLarge ==
  \/ \E f \in LargeFrames : Reader(ClientFrame(f))
  \/ \E k \in LargeChunks, ndebug \in BOOLEAN : Reader(BuffereventRead(k, ndebug))

\* One upgraded connection reading frames as large as on_read's buffer.
SpecLarge == Init /\ [][NextLarge]_vars

\* ---------------------------------------------------------------- C34
\* C34: every call of a reader state handler gets exactly the number of bytes
\* its state requires (2, 2, 8, 4, or the declared payload length), so no
\* size assertion at the head of a consume_* function ever fails.
C34_HandlersGetExactBytes ==
  ws_aborted = FALSE

\* ---------------------------------------------------------------- C35
\* Frames that take the reader along every edge: short, 16-bit and 64-bit
\* lengths, and the frames that close the connection in each state.
EdgeFrames ==
  {Frame(TRUE, 0, WS_OPCODE_TEXT_FRAME, TRUE, n, n) : n \in {1, 126}}
  \cup {Frame(TRUE, 0, WS_OPCODE_BINARY_FRAME, TRUE, MAX_PAYLOAD_LENGTH, 1),
        Frame(TRUE, 0, WS_OPCODE_BINARY_FRAME, TRUE, MAX_PAYLOAD_LENGTH + 1, 1),
        Frame(TRUE, 0, WS_OPCODE_CONTINUATION_FRAME, TRUE, 1, 1),
        Frame(TRUE, 0, WS_OPCODE_CONNECTION_CLOSE, TRUE, 0, 0),
        Frame(TRUE, 0, WS_OPCODE_TEXT_FRAME, FALSE, 1, 1)}

NextEdges ==
  \/ \E f \in EdgeFrames : Reader(ClientFrame(f))
  \/ \E k \in ChunkSizes, ndebug \in BOOLEAN : Reader(BuffereventRead(k, ndebug))

\* One upgraded connection whose client takes the reader through its states.
SpecEdges == Init /\ [][NextEdges]_vars

\* The states of enum websocket_state in which the reader takes input.
ReaderStates ==
  {"WS_NEEDS_INITIAL", "WS_NEEDS_LENGTH_16", "WS_NEEDS_LENGTH_64",
   "WS_NEEDS_MASKING_KEY", "WS_NEEDS_PAYLOAD"}

\* The edges between reader states, and the edges into WS_CLOSED.
ReaderEdges ==
  {<<"WS_NEEDS_INITIAL", "WS_NEEDS_LENGTH_16">>,
   <<"WS_NEEDS_INITIAL", "WS_NEEDS_LENGTH_64">>,
   <<"WS_NEEDS_INITIAL", "WS_NEEDS_MASKING_KEY">>,
   <<"WS_NEEDS_LENGTH_16", "WS_NEEDS_MASKING_KEY">>,
   <<"WS_NEEDS_LENGTH_64", "WS_NEEDS_MASKING_KEY">>,
   <<"WS_NEEDS_MASKING_KEY", "WS_NEEDS_PAYLOAD">>,
   <<"WS_NEEDS_PAYLOAD", "WS_NEEDS_INITIAL">>}
  \cup {<<s, "WS_CLOSED">> : s \in ReaderStates \cup {"WS_NEEDS_HTTP_UPGRADE"}}

\* websocket_consume on input offered outside the reader states.
ConsumeOutside(s) ==
  websocket_consume([websocket EXCEPT !.in_state = s], <<0, 0>>).in_state

\* C35: every change of the reader's state is one of the edges
\* NeedsInitial -> NeedsLength16 | NeedsLength64 | NeedsMaskingKey,
\* NeedsLength16 -> NeedsMaskingKey, NeedsLength64 -> NeedsMaskingKey,
\* NeedsMaskingKey -> NeedsPayload, NeedsPayload -> NeedsInitial, or an edge
\* into Closed; input offered in NeedsHttpUpgrade or Closed results in
\* Closed; Closed is never left.
C35_ReaderEdges ==
  /\ [](\A s \in {"WS_NEEDS_HTTP_UPGRADE", "WS_CLOSED"} :
          ConsumeOutside(s) = "WS_CLOSED")
  /\ [][websocket'.in_state # websocket.in_state
          => <<websocket.in_state, websocket'.in_state>> \in ReaderEdges]_vars

\* After a frame with a 16-bit length has been read whole (its message was
\* delivered), a frame with a 64-bit length has taken the reader to its
\* payload.
C35_Witness ==
  /\ websocket.in_state = "WS_NEEDS_PAYLOAD"
  /\ websocket.in_frame_nbytes = MAX_PAYLOAD_LENGTH
  /\ \E i \in 1..Len(websocket.cb_calls) : Len(websocket.cb_calls[i].bytes) = 126

\* ---------------------------------------------------------------- C36
\* The step completes a frame: the payload handler returns the reader to
\* waiting for the next header.
FrameCompleted ==
  /\ websocket.in_state = "WS_NEEDS_PAYLOAD"
  /\ websocket'.in_state = "WS_NEEDS_INITIAL"

\* C36: in_message_is_continuing is false before the first frame and changes
\* only when a data frame is completed: a completed text or binary frame
\* sets it to "FIN = 0"; a continuation frame is only completed while it is
\* true (the message was started by a text or binary frame with FIN = 0) and
\* sets it to "FIN = 0"; completed control frames and all other steps leave
\* it alone.  So at every frame boundary of an open connection it is true
\* exactly if the last completed data frame had FIN = 0 and belongs to a
\* message started by a text or binary frame.
C36_ContinuingTracksLastDataFrame ==
  /\ ~websocket.in_message_is_continuing
  /\ [][IF FrameCompleted
        THEN CASE websocket.in_frame_opcode
                    \in {WS_OPCODE_TEXT_FRAME, WS_OPCODE_BINARY_FRAME} ->
                    websocket'.in_message_is_continuing
                      = ~websocket.in_frame_is_final
               [] websocket.in_frame_opcode = WS_OPCODE_CONTINUATION_FRAME ->
                    /\ websocket.in_message_is_continuing
                    /\ websocket'.in_message_is_continuing
                         = ~websocket.in_frame_is_final
               [] OTHER ->
                    websocket'.in_message_is_continuing
                      = websocket.in_message_is_continuing
        ELSE websocket'.in_message_is_continuing
               = websocket.in_message_is_continuing]_vars

\* A text frame with FIN = 0 and a continuation frame with FIN = 0 have been
\* completed, and the reader is at the frame boundary behind them with the
\* message still in progress.
C36_Witness ==
  /\ AtFrameBoundary
  /\ client.registered
  /\ ~ws_aborted
  /\ Len(written) = 2
  /\ written[1].opcode = WS_OPCODE_TEXT_FRAME /\ ~written[1].fin
  /\ written[2].opcode = WS_OPCODE_CONTINUATION_FRAME /\ ~written[2].fin
  /\ \A i \in 1..2 : written[i].declared = 1
  /\ websocket.in_message_is_continuing

\* ======================================================================
\* Further properties of the life of a connection
\* ======================================================================
\* ---------------------------------------------------------------- C37
\* What only _client_connection_destroy does.
DestroyOnly ==
  {"bufferevent_setcb", "http_request_destroy", "http_response_destroy",
   "pubsub_manager_unsubscribe_all", "websocket_destroy", "bufferevent_free",
   "close", "free"}

\* The steps of one destruction; the socket is shut down on the way unless
\* it was before.
Destruction(shut) ==
  <<"bufferevent_setcb", "bufferevent_disable", "http_request_destroy",
    "http_response_destroy", "pubsub_manager_unsubscribe_all",
    "websocket_destroy", "bufferevent_free">>
    \o (IF shut THEN <<"shutdown">> ELSE <<>>) \o <<"close", "free">>

\* io is what went before, without any step of a destruction, followed by
\* one destruction.
DestroyedOnceInOrder(io) ==
  \E shut \in BOOLEAN :
    LET n == Len(io) - Len(Destruction(shut)) IN
    /\ n >= 0
    /\ SubSeq(io, n + 1, Len(io)) = Destruction(shut)
    /\ \A i \in 1..n : io[i] \notin DestroyOnly

\* C37: the destruction of a connection disables the I/O callbacks, destroys
\* request and response, runs unsubscribe_all for the engine's websocket and
\* only then destroys the engine (its PING timer is cancelled), frees the
\* transport, closes the socket and frees the connection: each step once, in
\* this order, and none of them while the connection is registered.
C37_DestructionOrder ==
  IF client.registered
  THEN \A i \in 1..Len(client.io) : client.io[i] \notin DestroyOnly
  ELSE /\ DestroyedOnceInOrder(client.io)
       /\ ~websocket.ping_event
       /\ client.fd = "closed"

\* An upgraded connection whose PING timer had fired has been destroyed.
C37_Witness ==
  /\ ~client.registered
  /\ websocket.ping_count > 0
  /\ Count(client.io, "free") = 1

\* ======================================================================
\* Further properties of the library functions
\* ======================================================================
\* ---------------------------------------------------------------- C39
\* C39: a parsing function of http.c that fails returns STATUS_BAD with the
\* lexer where it was when the function was entered: parse_http_line_request
\* consumes no input on failure.
C39_FailureRestoresLexer ==
  (fn_done /\ fn_ret.status = STATUS_BAD) => fn_ret.lex = fn_arg

\* ======================================================================
\* The manager at process exit
\* ======================================================================
\* client_connection_destroy_all: the registered connections are destroyed
\* one after the other, each running pubsub_manager_unsubscribe_all.
RECURSIVE client_connection_destroy_all(_, _, _)
client_connection_destroy_all(m, connected, order) ==
  IF order = <<>> \/ m.crashed THEN m
  ELSE client_connection_destroy_all(
         pubsub_manager_unsubscribe_all(m, connected, Head(order)),
         connected, Tail(order))

\* The orders in which the registry may list the connections.
Orders(S) ==
  {order \in [1..Cardinality(S) -> S] :
     \A i, j \in 1..Cardinality(S) : order[i] = order[j] => i = j}

\* hashtable_destroy: a walk over the table; with key_in_string_pool the key
\* of every key chain is released, without it the value of every node.
RECURSIVE hashtable_destroy(_, _)
hashtable_destroy(table, key_in_string_pool) ==
  IF DOMAIN table = {} THEN <<>>
  ELSE LET k == CHOOSE x \in DOMAIN table : TRUE IN
       (IF key_in_string_pool THEN <<"string_pool_release">>
        ELSE [i \in 1..Len(table[k]) |-> "string_pool_release"])
         \o hashtable_destroy(DropKey(table, k), key_in_string_pool)

\* pubsub_manager_destroy, as the calls it makes on the string pool: the pool
\* is destroyed, then the two tables are walked.
pubsub_manager_destroy(m) ==
  <<"string_pool_destroy">>
    \o hashtable_destroy(m.cb, TRUE)
    \o hashtable_destroy(m.wb, FALSE)

\* The end of main: the connections are destroyed, then the manager.
ExitCalls(order) ==
  LET m == client_connection_destroy_all(Mgr, sub_is_connected, order) IN
  IF m.crashed THEN <<>> ELSE pubsub_manager_destroy(m)

\* No call on the pool follows string_pool_destroy.
PoolOutlivesUse(calls) ==
  \A i, j \in 1..Len(calls) :
    (calls[i] = "string_pool_destroy" /\ i < j)
      => calls[j] # "string_pool_release"

\* ---------------------------------------------------------------- C40
\* C40: whenever the process leaves its event loop, the destruction of the
\* manager releases every string-pool reference the two tables hold while
\* the pool is alive: no string_pool_release follows string_pool_destroy.
C40_PoolOutlivesTables ==
  ~crashed => \A order \in Orders(clients) : PoolOutlivesUse(ExitCalls(order))

====
